---- MODULE Spec2Model ----
(***************************************************************************)
(* Model of the crawl orchestration engine of the Sitefinity documentation *)
(* crawler (src/src/crawler.mjs, src/src/index.mjs).                       *)
(*                                                                         *)
(* A URL is modelled by its path suffix after the fixed site root          *)
(* 'https://www.progress.com/documentation/sitefinity-cms': a sequence of  *)
(* one-character strings.  The root itself is the empty suffix.  The two   *)
(* regular expressions of the crawler start with the literal root followed *)
(* by "/", so on such URLs they can only match at the start of the suffix. *)
(***************************************************************************)
EXTENDS Integers, Sequences, FiniteSets, TLC

VARIABLES
  options,            \* the options object handed to the constructor
  maxPages,           \* this.maxPages
  staleThreshold,     \* this.staleThreshold (seconds)
  outputDir,          \* state of the output location on the file system
  disk,               \* progress/*.json records, in directory-listing order
  browser,            \* this.browser: "undefined", "open" or "closed"
  context,            \* this.context is set
  visited,            \* this.visited
  visitedCanonical,   \* this.visitedCanonical
  pageCount,          \* this.pageCount
  cachedCount,        \* this.cachedCount
  cachedPages,        \* keys of this.cachedPages
  allMarkdownContent, \* this.allMarkdownContent
  urlsToCrawl,        \* the candidate set returned by initialize(), not yet iterated
  stack,              \* the call stack of crawlPage activations, top last
  pcRun,              \* position of run()
  artifacts,          \* the files written by close()
  exitCode,           \* exit status of the process, once it has ended
  hist,               \* history of the run: navigations issued, records written
  cu,                 \* input of the latest call in the single-function checks
  cres,               \* result of that call
  redirectFiles,      \* progress/*.redirect.json files
  redirectCache       \* this.redirectCache of each crawler instance

crawlVars == <<options, maxPages, staleThreshold, outputDir, disk, browser, context,
               visited, visitedCanonical, pageCount, cachedCount, cachedPages,
               allMarkdownContent, urlsToCrawl, stack, pcRun, artifacts, exitCode,
               hist>>
pureVars == <<cu, cres, redirectFiles, redirectCache>>
vars == <<crawlVars, pureVars>>

(***************************************************************************)
(* Bounds of the model.                                                    *)
(***************************************************************************)
MaxPathLen == 6
MaxTokenLen == 2
MaxBudget == 2
MaxRecords == 1

(***************************************************************************)
(* Values.                                                                 *)
(***************************************************************************)
null == <<"null">>
\* JavaScript numbers as far as the crawler uses them, and the absent option.
Num(n) == [t |-> "number", inf |-> FALSE, n |-> n]
Infinity == [t |-> "number", inf |-> TRUE, n |-> 0]
Absent == [t |-> "undefined", inf |-> FALSE, n |-> 0]

Digits == {"1", "2"}
Chars == {"/", "a"} \cup Digits

\* All strings over the characters of S of length at most n.
RECURSIVE StringsOver(_, _)
StringsOver(S, n) ==
  IF n = 0 THEN {<<>>}
  ELSE LET shorter == StringsOver(S, n - 1)
       IN shorter \cup {Append(s, c) : s \in {t \in shorter : Len(t) = n - 1}, c \in S}

StringsUpTo(n) == StringsOver(Chars, n)

\* count >= limit and count < limit, for a finite count and a number limit.
GreaterEq(count, limit) == ~limit.inf /\ count >= limit.n

LessThan(count, limit) == limit.inf \/ count < limit.n

(***************************************************************************)
(* URL canonicalizer.                                                      *)
(***************************************************************************)
\* Number of digit characters that follow the first character of the suffix.
RECURSIVE DigitsFrom(_, _)
DigitsFrom(p, i) ==
  IF i <= Len(p) /\ p[i] \in Digits THEN 1 + DigitsFrom(p, i + 1) ELSE 0

DigitRun(p) == DigitsFrom(p, 2)

\* The suffix matches /\/documentation\/sitefinity-cms\/(\d+)\//.
VersionMatch(p) ==
  /\ Len(p) >= 3
  /\ p[1] = "/"
  /\ LET n == DigitRun(p)
     IN n >= 1 /\ Len(p) >= n + 2 /\ p[n + 2] = "/"

extractVersion(url) ==
  IF VersionMatch(url) THEN SubSeq(url, 2, DigitRun(url) + 1) ELSE null

\* normalizeUrl with a pattern that lacks the closing slash of the version segment.
normalizeUrlLeavesSlash(url) ==
  IF VersionMatch(url)
  THEN <<"/">> \o SubSeq(url, DigitRun(url) + 2, Len(url))
  ELSE url

normalizeUrl(url) ==
  IF VersionMatch(url)
  THEN <<"/">> \o SubSeq(url, DigitRun(url) + 3, Len(url))
  ELSE url

getCanonicalUrl(url) ==
  IF extractVersion(url) # null THEN normalizeUrl(url) ELSE url

(***************************************************************************)
(* The site: the URLs a run can meet, and what the browser may answer.     *)
(***************************************************************************)
baseUrl == <<>>
PageA == <<"/", "a">>
V1A == <<"/", "1", "/", "a">>
V2A == <<"/", "2", "/", "a">>
W12A == <<"/", "1", "/", "2", "/", "a">>

Urls == {baseUrl, PageA, V1A, V2A, W12A}

\* Sequences of at most n elements of S.
SeqsUpTo(S, n) == StringsOver(S, n)

Range(s) == {s[i] : i \in 1..Len(s)}

\* What extractLinks can return on a live page: distinct URLs under the root.  The
\* lists are the orders in which the versions of one logical page can be met: two
\* versions, a version before its canonical URL, a doubly versioned URL before the
\* URL it canonicalizes to.
LinkLists == {<<>>, <<V1A, V2A>>, <<V1A, PageA>>, <<W12A, V2A>>}

\* window.location.href after a successful navigation to url.
FinalUrls(url) == {url} \cup (IF url = baseUrl THEN {PageA} ELSE {})

(***************************************************************************)
(* Persisted records and the cache loader.                                 *)
(***************************************************************************)
DefaultStaleThreshold == 86400
DefaultMaxPages == 100

\* now - crawledAt of the stored records, in milliseconds.
AgeRecent == 1000 - 1
AgeOneDay == DefaultStaleThreshold * 1000
AgeJustUnderOneDay == AgeOneDay - 1

\* An <a href> of a stored document: what precedes the path in the attribute,
\* the URL it resolves to, and what follows the path.
\*   root      : 'https://www.progress.com/documentation/sitefinity-cms' + path
\*   rootPath  : '/documentation/sitefinity-cms' + path
\*   relative  : a path relative to the URL of the document
\*   otherSite : 'https://example.com/documentation/sitefinity-cms' + path
\* The suffix is empty, a fragment ('#...') or a query ('?...').
Href(prefix, path, suffix) == [prefix |-> prefix, path |-> path, suffix |-> suffix]
Absolute(urls) == [i \in 1..Len(urls) |-> Href("root", urls[i], "")]

\* The hrefs of the stored documents of the records of the initial disk.
StoredLinkLists == {<<>>, Absolute(<<W12A, V1A>>)}

\* urlToFilename without the ".json" extension.
FileChars == {"a", "b", "d", "e", "i", "n", "x", "_", "-"} \cup Digits
SafeChar(c) == IF c \in FileChars THEN c ELSE "_"

RECURSIVE CollapseUnderscores(_)
CollapseUnderscores(s) ==
  IF Len(s) <= 1 THEN s
  ELSE IF s[1] = "_" /\ s[2] = "_" THEN CollapseUnderscores(Tail(s))
  ELSE <<s[1]>> \o CollapseUnderscores(Tail(s))

TrimUnderscores(s) ==
  LET a == IF Len(s) >= 1 /\ s[1] = "_" THEN Tail(s) ELSE s
  IN IF Len(a) >= 1 /\ a[Len(a)] = "_" THEN SubSeq(a, 1, Len(a) - 1) ELSE a

urlToFilename(url) ==
  LET path == IF Len(url) >= 1 /\ url[1] = "/" THEN Tail(url) ELSE url
      safe == [i \in 1..Len(path) |-> SafeChar(path[i])]
      name == TrimUnderscores(CollapseUnderscores(safe))
  IN IF name = <<>> THEN <<"i", "n", "d", "e", "x">> ELSE name

\* The url of a record whose JSON has no url field.
Undefined == <<"undefined">>

\* A record of the progress directory: the .json file, whether it parses, whether
\* its .html and .md companions exist, and the links of the stored .html document.
StoredRecord(url, age, links) ==
  [file |-> urlToFilename(url), url |-> url, age |-> age, timeOk |-> TRUE,
   jsonOk |-> TRUE, hasHtml |-> TRUE, hasMd |-> TRUE, links |-> links]

\* The files of one directory have different names.
UniqueFiles(files) ==
  \A i, j \in 1..Len(files) : files[i].file = files[j].file => i = j

\* The contents a progress directory can have with the records of S.
Directories(S) == {files \in SeqsUpTo(S, MaxRecords) : UniqueFiles(files)}

\* A record left without a companion: the .md of PageA is missing.
IncompleteRecords ==
  {[StoredRecord(PageA, AgeRecent, <<>>) EXCEPT !.hasMd = FALSE]}

\* A record of the base URL itself.
BaseRecords == {StoredRecord(baseUrl, AgeRecent, <<>>)}

StoredRecords ==
  {StoredRecord(url, age, links) :
     url \in {PageA, V2A}, age \in {AgeRecent, AgeOneDay}, links \in StoredLinkLists}
  \cup IncompleteRecords \cup BaseRecords

\* constructor: the option when it is supplied, else the default.
OptionOr(value, default) == IF value # Absent THEN value ELSE default

\* this.staleThreshold * 1000
ThresholdMs(threshold) == IF threshold.inf THEN Infinity ELSE Num(threshold.n * 1000)

\* isFresh with age <= staleThresholdMs.
isFreshInclusive(rec, threshold) ==
  rec.timeOk /\ (threshold.inf \/ rec.age <= threshold.n * 1000)

\* isFresh that takes a record without a readable crawledAt for a new one.
isFreshUnparsed(rec, threshold) ==
  LessThan(IF rec.timeOk THEN rec.age ELSE 0, ThresholdMs(threshold))

\* age < staleThresholdMs; an unparsable crawledAt gives NaN, and NaN < x is false.
isFresh(rec, threshold) == rec.timeOk /\ LessThan(rec.age, ThresholdMs(threshold))

\* urls.add(link) for every link, on an insertion-ordered Set.
RECURSIVE AddAll(_, _)
AddAll(set, links) ==
  IF links = <<>> THEN set
  ELSE AddAll(IF Head(links) \in Range(set) THEN set ELSE Append(set, Head(links)),
              Tail(links))

\* href.includes('/documentation/sitefinity-cms')
IsDocumentationHref(href) == href.prefix \in {"root", "rootPath", "otherSite"}

\* cleanUrl.startsWith(this.baseUrl), for cleanUrl the href made absolute against
\* the URL of the document and cut at the first '#' and '?'
StartsWithBaseUrl(href) == href.prefix \in {"root", "rootPath", "relative"}

Harvested(href) == IsDocumentationHref(href) /\ StartsWithBaseUrl(href)

\* extractLinksFromHtml that takes every href that resolves under the base URL.
extractLinksFromHtmlResolved(hrefs, documentUrl) ==
  LET kept == SelectSeq(hrefs, StartsWithBaseUrl)
  IN AddAll(<<>>, [i \in 1..Len(kept) |-> kept[i].path])

\* extractLinksFromHtml(htmlContent, baseUrl): the cleaned URLs in order of first
\* occurrence
extractLinksFromHtml(hrefs, documentUrl) ==
  LET kept == SelectSeq(hrefs, Harvested)
  IN AddAll(<<>>, [i \in 1..Len(kept) |-> kept[i].path])

MdOfRecord(rec) == [url |-> rec.url, from |-> "cache"]

EmptyLoad ==
  [cachedPages |-> {}, visited |-> {}, visitedCanonical |-> {}, md |-> <<>>,
   urlsToCrawl |-> <<>>, freshCount |-> 0, filesRead |-> 0]

\* The loop body without its test for the companions of the record file.
LoadFileIgnoresCompanions(acc, rec, threshold) ==
  IF isFresh(rec, threshold)
  THEN [cachedPages |-> acc.cachedPages \cup {rec.url},
        visited |-> acc.visited \cup {rec.url},
        visitedCanonical |-> acc.visitedCanonical \cup {getCanonicalUrl(rec.url)},
        md |-> Append(acc.md, [url |-> rec.url, from |-> "cache"]),
        urlsToCrawl |-> AddAll(acc.urlsToCrawl, extractLinksFromHtml(rec.links, rec.url)),
        freshCount |-> acc.freshCount + 1,
        filesRead |-> acc.filesRead + 1]
  ELSE [acc EXCEPT !.filesRead = @ + 1]

\* The loop body without this.visited.add(jsonData.url) for a loaded record.
LoadFileNotVisited(acc, rec, threshold) ==
  IF ~rec.hasHtml \/ ~rec.hasMd THEN acc
  ELSE IF ~rec.jsonOk THEN [acc EXCEPT !.filesRead = @ + 1]
  ELSE IF isFresh(rec, threshold) /\ rec.url = Undefined
  THEN [acc EXCEPT !.cachedPages = @ \cup {rec.url},
                   !.visited = @ \cup {rec.url},
                   !.filesRead = @ + 1]
  ELSE IF isFresh(rec, threshold)
  THEN [cachedPages |-> acc.cachedPages \cup {rec.url},
        visited |-> acc.visited,
        visitedCanonical |-> acc.visitedCanonical \cup {getCanonicalUrl(rec.url)},
        md |-> Append(acc.md, MdOfRecord(rec)),
        urlsToCrawl |-> AddAll(acc.urlsToCrawl, extractLinksFromHtml(rec.links, rec.url)),
        freshCount |-> acc.freshCount + 1,
        filesRead |-> acc.filesRead + 1]
  ELSE [acc EXCEPT !.filesRead = @ + 1]

\* One iteration of the loop over the record files.  JSON.parse throws on a
\* file that does not parse; getCanonicalUrl throws on a url that is not a string,
\* after the record was stored in cachedPages and its url added to visited.
LoadFile(acc, rec, threshold) ==
  IF ~rec.hasHtml \/ ~rec.hasMd THEN acc
  ELSE IF ~rec.jsonOk THEN [acc EXCEPT !.filesRead = @ + 1]
  ELSE IF isFresh(rec, threshold) /\ rec.url = Undefined
  THEN [acc EXCEPT !.cachedPages = @ \cup {rec.url},
                   !.visited = @ \cup {rec.url},
                   !.filesRead = @ + 1]
  ELSE IF isFresh(rec, threshold)
  THEN [cachedPages |-> acc.cachedPages \cup {rec.url},
        visited |-> acc.visited \cup {rec.url},
        visitedCanonical |-> acc.visitedCanonical \cup {getCanonicalUrl(rec.url)},
        md |-> Append(acc.md, MdOfRecord(rec)),
        urlsToCrawl |-> AddAll(acc.urlsToCrawl, extractLinksFromHtml(rec.links, rec.url)),
        freshCount |-> acc.freshCount + 1,
        filesRead |-> acc.filesRead + 1]
  ELSE [acc EXCEPT !.filesRead = @ + 1]

RECURSIVE LoadFiles(_, _, _)
LoadFiles(acc, files, threshold) ==
  IF files = <<>> THEN acc
  ELSE LoadFiles(LoadFile(acc, Head(files), threshold), Tail(files), threshold)

\* loadCachedProgress without the staleThreshold === 0 short cut.
loadCachedProgressNoShortCut(files, threshold) ==
  IF Len(files) = 0 THEN EmptyLoad
  ELSE LoadFiles(EmptyLoad, files, threshold)

loadCachedProgress(files, threshold) ==
  IF Len(files) = 0 THEN EmptyLoad
  ELSE IF threshold = Num(0) THEN EmptyLoad
  ELSE LoadFiles(EmptyLoad, files, threshold)

(***************************************************************************)
(* crawlPage: one activation per stack frame.                              *)
(*   enter  : called, nothing decided yet                                  *)
(*   probe  : test page open, navigation to the canonical URL in flight    *)
(*   canon  : awaiting crawlPage(canonicalUrl)                             *)
(*   page   : step 5 marked, awaiting context.newPage()                    *)
(*   nav    : page open, navigation attempt att in flight with timeout     *)
(*   loaded : navigation succeeded, content not yet extracted              *)
(*   links  : page closed, iterating over the discovered links             *)
(***************************************************************************)
\* response: how the navigation that loaded the page completed, "ok" for a
\* response with an OK status, "notOk" for any other; the code does not keep it.
Frame(url) ==
  [url |-> url, pc |-> "enter", att |-> 0, timeout |-> 0, links |-> <<>>,
   response |-> "none"]

Top == stack[Len(stack)]
Popped == SubSeq(stack, 1, Len(stack) - 1)
WithTop(f) == [stack EXCEPT ![Len(stack)] = f]

maxRetries == 3
BaseTimeout == 10000

\* An attempt whose timeout is the base timeout whatever its number.
AttemptFlatTimeout(frame, attempt) ==
  [frame EXCEPT !.pc = "nav", !.att = attempt, !.timeout = BaseTimeout]

\* const timeout = 10000 * attempt; page.goto(url, {timeout}) of the given attempt
Attempt(frame, attempt) ==
  [frame EXCEPT !.pc = "nav", !.att = attempt, !.timeout = BaseTimeout * attempt]

\* The budget test with > in place of >=.
BudgetReachedOffByOne == GreaterEq(pageCount, Num(maxPages.n + 1)) /\ ~maxPages.inf

BudgetReached == GreaterEq(pageCount, maxPages)

\* A step of the activation on top of the stack; no step of crawlPage touches
\* the options, the browser, the loader's results or the output files.
InCrawlPage ==
  /\ stack # <<>>
  /\ UNCHANGED <<options, maxPages, staleThreshold, outputDir, browser, context,
                 cachedCount, cachedPages, urlsToCrawl, pcRun, artifacts,
                 exitCode>>
  /\ UNCHANGED pureVars

\* A return that records the URL as visited.
ReturnMarksVisited ==
  /\ stack' = Popped
  /\ visited' = visited \cup {Top.url}
  /\ UNCHANGED <<visitedCanonical, pageCount, hist>>

\* return; with no effect on the crawler
Return ==
  /\ stack' = Popped
  /\ UNCHANGED <<visited, visitedCanonical, pageCount, hist>>

\* Step 5 without this.visitedCanonical.add(canonicalUrl).
CacheOrFetchNoCanonical(url, h) ==
  IF url \in cachedPages
  THEN /\ stack' = Popped
       /\ hist' = h
       /\ UNCHANGED <<visited, visitedCanonical, pageCount>>
  ELSE /\ visited' = visited \cup {url}
       /\ pageCount' = pageCount + 1
       /\ stack' = WithTop([Top EXCEPT !.pc = "page"])
       /\ hist' = [h EXCEPT !.fetched = @ \cup {url}]
       /\ UNCHANGED visitedCanonical

\* Step 5 without this.visited.add(url).
CacheOrFetchNoVisited(url, h) ==
  IF url \in cachedPages
  THEN /\ stack' = Popped
       /\ hist' = h
       /\ UNCHANGED <<visited, visitedCanonical, pageCount>>
  ELSE /\ visitedCanonical' = visitedCanonical \cup {getCanonicalUrl(url)}
       /\ pageCount' = pageCount + 1
       /\ stack' = WithTop([Top EXCEPT !.pc = "page"])
       /\ hist' = [h EXCEPT !.fetched = @ \cup {url}]
       /\ UNCHANGED visited

\* Step 4 that also takes a complete record in the progress directory for cache.
CacheOrFetchRereadsDisk(url, h) ==
  IF \/ url \in cachedPages
     \/ \E i \in 1..Len(disk) : disk[i].url = url /\ disk[i].hasHtml /\ disk[i].hasMd
  THEN /\ stack' = Popped
       /\ hist' = h
       /\ UNCHANGED <<visited, visitedCanonical, pageCount>>
  ELSE /\ visited' = visited \cup {url}
       /\ visitedCanonical' = visitedCanonical \cup {getCanonicalUrl(url)}
       /\ pageCount' = pageCount + 1
       /\ stack' = WithTop([Top EXCEPT !.pc = "page"])
       /\ hist' = [h EXCEPT !.fetched = @ \cup {url}]

\* Steps 4 and 5 up to the creation of the page; h is the history so far.
CacheOrFetch(url, h) ==
  IF url \in cachedPages
  THEN /\ stack' = Popped
       /\ hist' = h
       /\ UNCHANGED <<visited, visitedCanonical, pageCount>>
  ELSE /\ visited' = visited \cup {url}
       /\ visitedCanonical' = visitedCanonical \cup {getCanonicalUrl(url)}
       /\ pageCount' = pageCount + 1
       /\ stack' = WithTop([Top EXCEPT !.pc = "page"])
       /\ hist' = [h EXCEPT !.fetched = @ \cup {url}]

Enter ==
  /\ InCrawlPage
  /\ Top.pc = "enter"
  /\ LET url == Top.url
         canonicalUrl == getCanonicalUrl(url)
         hasVersion == extractVersion(url)
     IN IF url \in visited \/ BudgetReached
        THEN Return
        ELSE IF hasVersion # null /\ canonicalUrl \in visitedCanonical
        THEN Return
        ELSE IF hasVersion # null
        THEN /\ context
             /\ stack' = WithTop([Top EXCEPT !.pc = "probe"])
             /\ hist' = [hist EXCEPT !.probed = @ \cup {canonicalUrl}, !.open = @ + 1]
             /\ UNCHANGED <<visited, visitedCanonical, pageCount>>
        ELSE CacheOrFetch(url, hist)
  /\ UNCHANGED <<disk, allMarkdownContent>>

\* testPage.goto(canonicalUrl) settles: response.ok(), or an error status, a null
\* response or an exception.
ProbeSettles ==
  /\ InCrawlPage
  /\ Top.pc = "probe"
  /\ \E canonicalExists \in BOOLEAN :
       IF canonicalExists
       THEN /\ stack' = Append(WithTop([Top EXCEPT !.pc = "canon"]),
                               Frame(getCanonicalUrl(Top.url)))
            /\ hist' = [hist EXCEPT !.probeOk = @ \cup {Top.url}, !.open = @ - 1]
            /\ UNCHANGED <<visited, visitedCanonical, pageCount>>
       ELSE CacheOrFetch(Top.url, [hist EXCEPT !.probeFailed = @ \cup {Top.url}, !.open = @ - 1])
  /\ UNCHANGED <<disk, allMarkdownContent>>

\* crawlPage(canonicalUrl) has returned: the versioned URL is skipped.
CanonicalCrawled ==
  /\ InCrawlPage
  /\ Top.pc = "canon"
  /\ Return
  /\ UNCHANGED <<disk, allMarkdownContent>>

OpenPage ==
  /\ InCrawlPage
  /\ Top.pc = "page"
  /\ context
  /\ stack' = WithTop(Attempt(Top, 1))
  /\ hist' = [hist EXCEPT !.open = @ + 1]
  /\ UNCHANGED <<visited, visitedCanonical, pageCount, disk, allMarkdownContent>>

\* The retry loop whose last failure is thrown out of crawlPage, to run().
NavigationSettlesRaises ==
  /\ stack # <<>>
  /\ Top.pc = "nav"
  /\ \E ok \in BOOLEAN :
       IF ok
       THEN stack' = WithTop([Top EXCEPT !.pc = "loaded"]) /\ UNCHANGED pcRun
       ELSE IF Top.att < maxRetries
       THEN stack' = WithTop(Attempt(Top, Top.att + 1)) /\ UNCHANGED pcRun
       ELSE stack' = <<>> /\ pcRun' = "catch"
  /\ UNCHANGED <<visited, visitedCanonical, pageCount, hist, disk, allMarkdownContent>>
  /\ UNCHANGED <<options, maxPages, staleThreshold, outputDir, browser, context,
                 cachedCount, cachedPages, urlsToCrawl, artifacts, exitCode>>
  /\ UNCHANGED pureVars

\* The retry loop that gives the URL and its budget unit back when the last
\* attempt fails.
NavigationSettlesForgets ==
  /\ InCrawlPage
  /\ Top.pc = "nav"
  /\ \E ok \in BOOLEAN :
       IF ok
       THEN /\ stack' = WithTop([Top EXCEPT !.pc = "loaded"])
            /\ UNCHANGED <<visited, pageCount>>
       ELSE IF Top.att < maxRetries
       THEN /\ stack' = WithTop(Attempt(Top, Top.att + 1))
            /\ UNCHANGED <<visited, pageCount>>
       ELSE /\ stack' = Popped
            /\ visited' = visited \ {Top.url}
            /\ pageCount' = pageCount - 1
  /\ hist' = [hist EXCEPT !.open = IF Len(stack') < Len(stack) THEN @ - 1 ELSE @]
  /\ UNCHANGED <<visitedCanonical, disk, allMarkdownContent>>

\* The retry loop that gives up after the first failed attempt.
NavigationSettlesNoRetry ==
  /\ InCrawlPage
  /\ Top.pc = "nav"
  /\ \E ok \in BOOLEAN :
       stack' = IF ok THEN WithTop([Top EXCEPT !.pc = "loaded"]) ELSE Popped
  /\ hist' = [hist EXCEPT !.open = IF Len(stack') < Len(stack) THEN @ - 1 ELSE @]
  /\ UNCHANGED <<visited, visitedCanonical, pageCount, disk, allMarkdownContent>>

\* The retry loop that starts over at attempt 1 when the last attempt failed.
NavigationSettlesStartsOver ==
  /\ InCrawlPage
  /\ Top.pc = "nav"
  /\ \E ok \in BOOLEAN :
       IF ok
       THEN stack' = WithTop([Top EXCEPT !.pc = "loaded"]) /\ UNCHANGED hist
       ELSE IF Top.att < maxRetries
       THEN stack' = WithTop(Attempt(Top, Top.att + 1)) /\ UNCHANGED hist
       ELSE stack' = WithTop(Attempt(Top, 1)) /\ UNCHANGED hist
  /\ UNCHANGED <<visited, visitedCanonical, pageCount, disk, allMarkdownContent>>

\* page.goto(url, timeout) of attempt att settles: it resolves with a response,
\* whatever its HTTP status, or it throws (timeout, network error).  The
\* response is not looked at.
NavigationSettles ==
  /\ InCrawlPage
  /\ Top.pc = "nav"
  /\ \E outcome \in {"ok", "notOk", "throws"} :
       IF outcome # "throws"
       THEN /\ stack' = WithTop([Top EXCEPT !.pc = "loaded", !.response = outcome])
            /\ UNCHANGED hist
       ELSE IF Top.att < maxRetries
       THEN stack' = WithTop(Attempt(Top, Top.att + 1)) /\ UNCHANGED hist
       ELSE stack' = Popped /\ hist' = [hist EXCEPT !.open = @ - 1]
  /\ UNCHANGED <<visited, visitedCanonical, pageCount, disk, allMarkdownContent>>

\* savePageContent: the record replaces the one of the same file name.
SaveRecord(files, content) ==
  LET rec == [file |-> urlToFilename(content.url), url |-> content.url, age |-> 0,
              timeOk |-> TRUE, jsonOk |-> TRUE, hasHtml |-> TRUE, hasMd |-> TRUE,
              links |-> <<>>]
  IN IF \E i \in 1..Len(files) : files[i].file = rec.file
     THEN [i \in 1..Len(files) |-> IF files[i].file = rec.file THEN rec ELSE files[i]]
     ELSE Append(files, rec)

\* The page handler that navigates again when the extraction throws.
ProcessPageRetriesExtraction ==
  /\ InCrawlPage
  /\ Top.pc = "loaded"
  /\ \/ /\ stack' = WithTop(Attempt(Top, 1))
        /\ hist' = [hist EXCEPT !.extractFailed = @ \cup {Top.url}]
        /\ UNCHANGED <<disk, allMarkdownContent>>
     \/ \E final \in FinalUrls(Top.url) :
          /\ disk' = SaveRecord(disk, [url |-> final])
          /\ allMarkdownContent' = Append(allMarkdownContent, [url |-> final, from |-> "live"])
          /\ hist' = [hist EXCEPT !.saved = @ \cup {[req |-> Top.url, url |-> final]},
                                  !.open = @ - 1]
          /\ \/ stack' = Popped
             \/ \E links \in LinkLists :
                  stack' = WithTop([Top EXCEPT !.pc = "links", !.links = links, !.response = "none"])
  /\ UNCHANGED <<visited, visitedCanonical, pageCount>>

\* The page handler whose document goes to the front of the accumulation.
ProcessPagePrepends ==
  /\ InCrawlPage
  /\ Top.pc = "loaded"
  /\ \/ \* extraction throws: the catch block closes the page
        /\ stack' = Popped
        /\ hist' = [hist EXCEPT !.open = @ - 1, !.extractFailed = @ \cup {Top.url}]
        /\ UNCHANGED <<disk, allMarkdownContent>>
     \/ \E final \in FinalUrls(Top.url) :
          /\ disk' = SaveRecord(disk, [url |-> final])
          /\ allMarkdownContent' = <<[url |-> final, from |-> "live"]>> \o allMarkdownContent
          /\ hist' = [hist EXCEPT !.saved = @ \cup {[req |-> Top.url, url |-> final]},
                                  !.open = @ - 1]
          /\ \/ stack' = Popped        \* link discovery throws
             \/ \E links \in LinkLists :
                  stack' = WithTop([Top EXCEPT !.pc = "links", !.links = links, !.response = "none"])
  /\ UNCHANGED <<visited, visitedCanonical, pageCount>>

\* The page handler that recurses into the links before it closes the page.
ProcessPageKeepsPageOpen ==
  /\ InCrawlPage
  /\ Top.pc = "loaded"
  /\ \/ \* extraction throws: the catch block closes the page
        /\ stack' = Popped
        /\ hist' = [hist EXCEPT !.open = @ - 1, !.extractFailed = @ \cup {Top.url}]
        /\ UNCHANGED <<disk, allMarkdownContent>>
     \/ \E final \in FinalUrls(Top.url) :
          /\ disk' = SaveRecord(disk, [url |-> final])
          /\ allMarkdownContent' = Append(allMarkdownContent, [url |-> final, from |-> "live"])
          /\ \/ /\ stack' = Popped        \* link discovery throws
                /\ hist' = [hist EXCEPT !.saved = @ \cup {[req |-> Top.url, url |-> final]},
                                        !.open = @ - 1]
             \/ \E links \in LinkLists :
                  /\ stack' = WithTop([Top EXCEPT !.pc = "links", !.links = links, !.response = "none"])
                  /\ hist' = [hist EXCEPT !.saved = @ \cup {[req |-> Top.url, url |-> final]}]
  /\ UNCHANGED <<visited, visitedCanonical, pageCount>>

\* extractContent, saveContent, extractLinks and page.close() on the loaded page.
ProcessPage ==
  /\ InCrawlPage
  /\ Top.pc = "loaded"
  /\ \/ \* extraction throws: the catch block closes the page
        /\ stack' = Popped
        /\ hist' = [hist EXCEPT !.open = @ - 1, !.extractFailed = @ \cup {Top.url}]
        /\ UNCHANGED <<disk, allMarkdownContent>>
     \/ \E final \in FinalUrls(Top.url) :
          /\ disk' = SaveRecord(disk, [url |-> final])
          /\ allMarkdownContent' = Append(allMarkdownContent, [url |-> final, from |-> "live"])
          /\ hist' = [hist EXCEPT !.saved = @ \cup {[req |-> Top.url, url |-> final]},
                                  !.open = @ - 1]
          /\ \/ stack' = Popped        \* link discovery throws
             \/ \E links \in LinkLists :
                  stack' = WithTop([Top EXCEPT !.pc = "links", !.links = links, !.response = "none"])
  /\ UNCHANGED <<visited, visitedCanonical, pageCount>>

\* The loop over the discovered links without its budget test.
FollowLinksNoBudget ==
  /\ InCrawlPage
  /\ Top.pc = "links"
  /\ stack' = IF Top.links = <<>>
              THEN Popped
              ELSE Append(WithTop([Top EXCEPT !.links = Tail(@)]), Frame(Head(Top.links)))
  /\ UNCHANGED <<visited, visitedCanonical, pageCount, hist, disk, allMarkdownContent>>

\* The loop over the discovered links that takes the last link first.
FollowLinksLastFirst ==
  /\ InCrawlPage
  /\ Top.pc = "links"
  /\ stack' = IF Top.links = <<>> \/ BudgetReached
              THEN Popped
              ELSE Append(WithTop([Top EXCEPT !.links = SubSeq(@, 1, Len(@) - 1)]),
                          Frame(Top.links[Len(Top.links)]))
  /\ UNCHANGED <<visited, visitedCanonical, pageCount, hist, disk, allMarkdownContent>>

\* for (const link of links) { if (pageCount >= maxPages) break; await crawlPage(link) }
FollowLinks ==
  /\ InCrawlPage
  /\ Top.pc = "links"
  /\ stack' = IF Top.links = <<>> \/ BudgetReached
              THEN Popped
              ELSE Append(WithTop([Top EXCEPT !.links = Tail(@)]), Frame(Head(Top.links)))
  /\ UNCHANGED <<visited, visitedCanonical, pageCount, hist, disk, allMarkdownContent>>

crawlPage ==
  \/ Enter
  \/ ProbeSettles
  \/ CanonicalCrawled
  \/ OpenPage
  \/ NavigationSettles
  \/ ProcessPage
  \/ FollowLinks

(***************************************************************************)
(* run(), initialize() and close().                                        *)
(*   start      : constructed, run() not yet started                       *)
(*   candidates : iterating over the URLs harvested from the cache         *)
(*   base       : about to crawl the base URL                              *)
(*   close      : base URL being crawled, then close() of the try block    *)
(*   catch      : an error was thrown in the try block                     *)
(*   done       : run() returned, the process ends with status 0           *)
(*   exit1      : process.exit(1)                                          *)
(*   rejected   : close() threw in the catch block, run() rejected         *)
(***************************************************************************)
\* _summary.json and llms-full.txt: not written, or the content written.
NoArtifacts == [summary |-> <<>>, corpus |-> <<>>]

\* mkdirSync of the output directories, loadCachedProgress, chromium.launch and
\* browser.newContext.
initialize ==
  /\ pcRun = "start"
  /\ \E mkdirOk \in (IF outputDir = "absent" THEN BOOLEAN ELSE {TRUE}),
        launch \in {"ok", "launchThrows", "newContextThrows"} :
       IF ~mkdirOk
       THEN /\ outputDir' = "unusable"
            /\ pcRun' = "catch"
            /\ UNCHANGED <<browser, context, visited, visitedCanonical, cachedCount,
                           cachedPages, allMarkdownContent, urlsToCrawl, hist>>
       ELSE LET load == loadCachedProgress(disk, staleThreshold)
            IN /\ outputDir' = "present"
               /\ cachedPages' = load.cachedPages
               /\ visited' = load.visited
               /\ visitedCanonical' = load.visitedCanonical
               /\ allMarkdownContent' = load.md
               /\ cachedCount' = load.freshCount
               /\ browser' = IF launch = "launchThrows" THEN "undefined" ELSE "open"
               /\ context' = (launch = "ok")
               /\ urlsToCrawl' = IF launch = "ok" THEN load.urlsToCrawl ELSE <<>>
               /\ pcRun' = IF launch = "ok" THEN "candidates" ELSE "catch"
               /\ hist' = [hist EXCEPT !.filesRead = load.filesRead, !.found = Len(disk),
                                       !.harvested = Len(load.urlsToCrawl)]
  /\ UNCHANGED <<options, maxPages, staleThreshold, disk, pageCount, stack, artifacts,
                 exitCode>>
  /\ UNCHANGED pureVars

\* The loop over the candidates that stops after the first of them.
crawlCandidatesFirstOnly ==
  /\ pcRun = "candidates"
  /\ stack = <<>>
  /\ IF urlsToCrawl = <<>> \/ BudgetReached \/ Len(urlsToCrawl) < hist.harvested
     THEN /\ pcRun' = "base"
          /\ UNCHANGED <<stack, urlsToCrawl>>
     ELSE /\ stack' = <<Frame(Head(urlsToCrawl))>>
          /\ urlsToCrawl' = Tail(urlsToCrawl)
          /\ UNCHANGED pcRun
  /\ UNCHANGED <<options, maxPages, staleThreshold, outputDir, disk, browser, context,
                 visited, visitedCanonical, pageCount, cachedCount, cachedPages,
                 allMarkdownContent, artifacts, exitCode, hist>>
  /\ UNCHANGED pureVars

\* for (const url of urlsToCrawl) { if (pageCount >= maxPages) break; await crawlPage(url) }
crawlCandidates ==
  /\ pcRun = "candidates"
  /\ stack = <<>>
  /\ IF urlsToCrawl = <<>> \/ BudgetReached
     THEN /\ pcRun' = "base"
          /\ UNCHANGED <<stack, urlsToCrawl>>
     ELSE /\ stack' = <<Frame(Head(urlsToCrawl))>>
          /\ urlsToCrawl' = Tail(urlsToCrawl)
          /\ UNCHANGED pcRun
  /\ UNCHANGED <<options, maxPages, staleThreshold, outputDir, disk, browser, context,
                 visited, visitedCanonical, pageCount, cachedCount, cachedPages,
                 allMarkdownContent, artifacts, exitCode, hist>>
  /\ UNCHANGED pureVars

\* run() that crawls the base URL only when the cache gave no candidates.
crawlBaseOnlyWithoutCandidates ==
  /\ pcRun = "base"
  /\ stack = <<>>
  /\ stack' = IF hist.harvested > 0 THEN <<>> ELSE <<Frame(baseUrl)>>
  /\ pcRun' = "close"
  /\ UNCHANGED <<options, maxPages, staleThreshold, outputDir, disk, browser, context,
                 visited, visitedCanonical, pageCount, cachedCount, cachedPages,
                 allMarkdownContent, urlsToCrawl, artifacts, exitCode, hist>>
  /\ UNCHANGED pureVars

\* await this.crawlPage(this.baseUrl)
crawlBase ==
  /\ pcRun = "base"
  /\ stack = <<>>
  /\ stack' = <<Frame(baseUrl)>>
  /\ pcRun' = "close"
  /\ UNCHANGED <<options, maxPages, staleThreshold, outputDir, disk, browser, context,
                 visited, visitedCanonical, pageCount, cachedCount, cachedPages,
                 allMarkdownContent, urlsToCrawl, artifacts, exitCode, hist>>
  /\ UNCHANGED pureVars

Summary ==
  [totalPages |-> pageCount, cachedPages |-> cachedCount, newlyFetchedPages |-> pageCount,
   pages |-> visited]

Corpus ==
  [totalPages |-> pageCount + cachedCount, cachedPages |-> cachedCount,
   newlyFetchedPages |-> pageCount, documents |-> allMarkdownContent]

\* How the process ends on an unhandled promise rejection: with status 1 where the
\* runtime turns it into an uncaught exception (Node.js 15 and later), with a
\* warning and status 0 before that (the README asks for Node.js 14+).
UnhandledRejectionExitCodes == {0, 1}

\* run() whose catch block exits without calling close().
closeOnlyInTry ==
  /\ pcRun \in {"close", "catch"}
  /\ stack = <<>>
  /\ IF pcRun = "catch"
     THEN /\ pcRun' = "exit1"
          /\ exitCode' = <<1>>
          /\ UNCHANGED <<browser, artifacts>>
     ELSE /\ browser' = IF browser = "open" THEN "closed" ELSE browser
          /\ artifacts' = [summary |-> <<Summary>>, corpus |-> <<Corpus>>]
          /\ pcRun' = "done"
          /\ exitCode' = <<0>>
  /\ UNCHANGED <<options, maxPages, staleThreshold, outputDir, disk, context,
                 visited, visitedCanonical, pageCount, cachedCount, cachedPages,
                 allMarkdownContent, urlsToCrawl, stack, hist>>
  /\ UNCHANGED pureVars

\* close(), from the try block or from the catch block of run().  writeFileSync
\* throws when the output directory could not be created; process.exit(1) is then
\* skipped and the promise of run(), which index.mjs leaves unhandled, rejects.
close ==
  /\ pcRun \in {"close", "catch"}
  /\ stack = <<>>
  /\ browser' = IF browser = "open" THEN "closed" ELSE browser
  /\ IF outputDir = "present"
     THEN /\ artifacts' = [summary |-> <<Summary>>, corpus |-> <<Corpus>>]
          /\ pcRun' = IF pcRun = "close" THEN "done" ELSE "exit1"
          /\ exitCode' = IF pcRun = "close" THEN <<0>> ELSE <<1>>
     ELSE /\ UNCHANGED artifacts
          /\ IF pcRun = "close"
             THEN pcRun' = "catch" /\ UNCHANGED exitCode
             ELSE /\ pcRun' = "rejected"
                  /\ \E code \in UnhandledRejectionExitCodes : exitCode' = <<code>>
  /\ UNCHANGED <<options, maxPages, staleThreshold, outputDir, disk, context,
                 visited, visitedCanonical, pageCount, cachedCount, cachedPages,
                 allMarkdownContent, urlsToCrawl, stack, hist>>
  /\ UNCHANGED pureVars

(***************************************************************************)
(* The crawler after construction, for every entry parameter, every        *)
(* content of the progress directory and every answer of the site.         *)
(***************************************************************************)
NoHistory ==
  [fetched |-> {},     \* URLs on which step 5 was started
   probed |-> {},      \* URLs an existence probe navigated to
   probeOk |-> {},     \* versioned URLs whose canonical probe succeeded
   probeFailed |-> {}, \* versioned URLs whose canonical probe failed
   saved |-> {},       \* records written: requested URL and the url field written
   filesRead |-> 0,    \* record files read by the loader
   found |-> 0,        \* record files the loader found in the progress directory
   harvested |-> 0,    \* URLs the loader extracted from the stored documents
   extractFailed |-> {}, \* URLs whose loaded page failed in extractContent
   open |-> 0]         \* pages opened by newPage() and not yet closed

Budgets == {Num(n) : n \in 0..MaxBudget} \cup {Infinity}
Thresholds == {Absent, Num(0), Infinity}

NoRedirects ==
  /\ redirectFiles = {}
  /\ redirectCache = <<{}, {}>>

PureIdle ==
  /\ cu = <<>>
  /\ cres = <<>>
  /\ NoRedirects

Init ==
  /\ options \in [maxPages : Budgets, staleThreshold : Thresholds]
  /\ maxPages = OptionOr(options.maxPages, Num(DefaultMaxPages))
  /\ staleThreshold = OptionOr(options.staleThreshold, Num(DefaultStaleThreshold))
  /\ disk \in Directories(StoredRecords)
  /\ outputDir \in (IF disk = <<>> THEN {"absent", "present"} ELSE {"present"})
  /\ browser = "undefined"
  /\ context = FALSE
  /\ visited = {}
  /\ visitedCanonical = {}
  /\ pageCount = 0
  /\ cachedCount = 0
  /\ cachedPages = {}
  /\ allMarkdownContent = <<>>
  /\ urlsToCrawl = <<>>
  /\ stack = <<>>
  /\ pcRun = "start"
  /\ artifacts = NoArtifacts
  /\ exitCode = <<>>
  /\ hist = NoHistory
  /\ PureIdle

Next ==
  \/ initialize
  \/ crawlCandidates
  \/ crawlBase
  \/ crawlPage
  \/ close

Spec == Init /\ [][Next]_vars

\* The run on an event loop that keeps running: every awaited operation settles
\* (each navigation has a timeout), so a step that can be taken is taken.
SpecLive == Init /\ [][Next]_vars /\ WF_vars(Next)

(***************************************************************************)
(* The canonicalizer on its own: every URL suffix of at most MaxPathLen    *)
(* characters, and every pair of URLs that differ in the version token.    *)
(***************************************************************************)
CrawlIdle ==
  /\ options = [maxPages |-> Absent, staleThreshold |-> Absent]
  /\ maxPages = Num(DefaultMaxPages)
  /\ staleThreshold = Num(DefaultStaleThreshold)
  /\ disk = <<>>
  /\ outputDir = "absent"
  /\ browser = "undefined"
  /\ context = FALSE
  /\ visited = {}
  /\ visitedCanonical = {}
  /\ pageCount = 0
  /\ cachedCount = 0
  /\ cachedPages = {}
  /\ allMarkdownContent = <<>>
  /\ urlsToCrawl = <<>>
  /\ stack = <<>>
  /\ pcRun = "idle"
  /\ artifacts = NoArtifacts
  /\ exitCode = <<>>
  /\ hist = NoHistory

\* crawler.getCanonicalUrl(url), again on its result, and extractVersion of the result
Canonicalize ==
  /\ cres = <<>>
  /\ cres' = <<[canonical |-> getCanonicalUrl(cu[1]),
                twice |-> getCanonicalUrl(getCanonicalUrl(cu[1])),
                version |-> extractVersion(getCanonicalUrl(cu[1])),
                all |-> [i \in 1..Len(cu) |-> getCanonicalUrl(cu[i])]]>>
  /\ UNCHANGED <<cu, redirectFiles, redirectCache>>
  /\ UNCHANGED crawlVars

InitCanon ==
  /\ CrawlIdle
  /\ cu \in {<<u>> : u \in StringsUpTo(MaxPathLen)}
  /\ cres = <<>>
  /\ NoRedirects

SpecCanon == InitCanon /\ [][Canonicalize]_vars

(***************************************************************************)
(* urlToFilename on its own: every pair of URLs under the site root whose  *)
(* paths are made of letters, underscores and slashes, and the page named  *)
(* index.                                                                  *)
(***************************************************************************)
MaxNameLen == 3

IndexPage == <<"/", "i", "n", "d", "e", "x">>

FilenameUrls ==
  {<<>>, IndexPage} \cup {<<"/">> \o s : s \in StringsOver({"/", "a", "b", "_"}, MaxNameLen)}

\* urlToFilename(url) for each of the URLs
Filenames ==
  /\ cres = <<>>
  /\ cres' = <<[names |-> [i \in 1..Len(cu) |-> urlToFilename(cu[i])]]>>
  /\ UNCHANGED <<cu, redirectFiles, redirectCache>>
  /\ UNCHANGED crawlVars

InitFilename ==
  /\ CrawlIdle
  /\ cu \in {<<u, v>> : u \in FilenameUrls, v \in FilenameUrls}
  /\ cres = <<>>
  /\ NoRedirects

SpecFilename == InitFilename /\ [][Filenames]_vars

\* Version tokens: non-empty digit strings.
Tokens == StringsOver(Digits, MaxTokenLen) \ {<<>>}

\* The URL with token as its version segment and rest after it, and the URL
\* without a version segment.
Versioned(token, rest) == <<"/">> \o token \o <<"/">> \o rest
Unversioned(rest) == <<"/">> \o rest

InitVersions ==
  /\ CrawlIdle
  /\ cu \in {<<Versioned(t1, rest), Versioned(t2, rest), Unversioned(rest)>> :
               t1 \in Tokens, t2 \in Tokens, rest \in StringsUpTo(MaxPathLen - 3)}
  /\ cres = <<>>
  /\ NoRedirects

SpecVersions == InitVersions /\ [][Canonicalize]_vars

(***************************************************************************)
(* The loader on its own: initialize() for every threshold and for record  *)
(* files of every age, with and without their companions and a readable    *)
(* crawledAt.                                                              *)
(***************************************************************************)
\* Stored documents with hrefs of every form: a root-relative href with a
\* fragment, a relative href, an href to another site, and an absolute href with
\* a query to a URL already linked.
LoaderLinkLists ==
  StoredLinkLists \cup
  {<<Href("rootPath", V1A, "#"), Href("relative", PageA, ""),
     Href("otherSite", V2A, ""), Href("root", V1A, "?")>>}

WellFormedRecords ==
  [file : {urlToFilename(PageA)}, url : {PageA}, age : {AgeRecent, AgeJustUnderOneDay, AgeOneDay},
   timeOk : BOOLEAN, jsonOk : {TRUE}, hasHtml : BOOLEAN, hasMd : BOOLEAN,
   links : LoaderLinkLists]
  \cup
  [file : {urlToFilename(V2A)}, url : {V2A}, age : {AgeRecent, AgeJustUnderOneDay, AgeOneDay},
   timeOk : BOOLEAN, jsonOk : {TRUE}, hasHtml : BOOLEAN, hasMd : BOOLEAN,
   links : LoaderLinkLists]

\* Record files that do not parse, whose crawledAt can therefore not be read,
\* and record files without a url field.
MalformedRecords ==
  [file : {urlToFilename(PageA)}, url : {PageA}, age : {AgeRecent}, timeOk : {FALSE},
   jsonOk : {FALSE}, hasHtml : {TRUE}, hasMd : {TRUE}, links : StoredLinkLists]
  \cup
  [file : {urlToFilename(V2A)}, url : {Undefined}, age : {AgeRecent, AgeOneDay},
   timeOk : {TRUE}, jsonOk : {TRUE}, hasHtml : {TRUE}, hasMd : {TRUE},
   links : StoredLinkLists]

LoaderRecords == WellFormedRecords \cup MalformedRecords

\* The loader is checked on one more record file than the whole run.
MaxLoaderRecords == MaxRecords + 1
LoaderDirectories ==
  {files \in SeqsUpTo(LoaderRecords, MaxLoaderRecords) : UniqueFiles(files)}

InitLoader ==
  /\ options \in [maxPages : {Infinity}, staleThreshold : Thresholds \cup {Num(1)}]
  /\ maxPages = OptionOr(options.maxPages, Num(DefaultMaxPages))
  /\ staleThreshold = OptionOr(options.staleThreshold, Num(DefaultStaleThreshold))
  /\ disk \in LoaderDirectories
  /\ outputDir = "present"
  /\ browser = "undefined"
  /\ context = FALSE
  /\ visited = {}
  /\ visitedCanonical = {}
  /\ pageCount = 0
  /\ cachedCount = 0
  /\ cachedPages = {}
  /\ allMarkdownContent = <<>>
  /\ urlsToCrawl = <<>>
  /\ stack = <<>>
  /\ pcRun = "start"
  /\ artifacts = NoArtifacts
  /\ exitCode = <<>>
  /\ hist = NoHistory
  /\ PureIdle

SpecLoader == InitLoader /\ [][initialize]_vars

(***************************************************************************)
(* The redirect cache.  src/test/redirect-cache.mjs exercises three        *)
(* methods of SitefinityCrawler, saveRedirectToCache, loadRedirectFromCache *)
(* and loadAllRedirects, and the field redirectCache; the class in         *)
(* src/src/crawler.mjs does not contain them, so they are modelled after   *)
(* the behaviour that test states: one '.redirect.json' file per source in *)
(* the progress directory, holding source, target and cachedAt.            *)
(***************************************************************************)
MaxClock == 2

Instances == 1..2
RedirectSources == {PageA, V1A}
RedirectTargets == {PageA, V2A}

RedirectFile(source) == [stem |-> source, ext |-> ".redirect.json"]

\* Map.prototype.get and Map.prototype.set on a redirect cache
Get(cache, source) ==
  IF \E e \in cache : e.source = source
  THEN (CHOOSE e \in cache : e.source = source).target
  ELSE null
Set(cache, source, target) ==
  {e \in cache : e.source # source} \cup {[source |-> source, target |-> target]}

\* the target stored in the redirect file of source, null without such a file
ReadRedirect(files, source) ==
  IF \E f \in files : f.file = RedirectFile(source)
  THEN (CHOOSE f \in files : f.file = RedirectFile(source)).target
  ELSE null

RedirectCall(op, i, source, target) ==
  <<[op |-> op, inst |-> i, source |-> source, target |-> target]>>

\* new SitefinityCrawler({outputDir, ...}) in place of instance i
construct(i) ==
  /\ redirectCache' = [redirectCache EXCEPT ![i] = {}]
  /\ cu' = RedirectCall("new", i, null, null)
  /\ cres' = <<>>
  /\ UNCHANGED redirectFiles

\* a save that records the mapping in memory only
saveRedirectInMemoryOnly(i, source, target, now) ==
  /\ redirectCache' = [redirectCache EXCEPT ![i] = Set(@, source, target)]
  /\ cu' = RedirectCall("save", i, source, target)
  /\ cres' = <<>>
  /\ UNCHANGED redirectFiles

saveRedirectToCache(i, source, target, now) ==
  /\ redirectFiles' = {f \in redirectFiles : f.file # RedirectFile(source)} \cup
                        {[file |-> RedirectFile(source), source |-> source,
                          target |-> target, cachedAt |-> now]}
  /\ redirectCache' = [redirectCache EXCEPT ![i] = Set(@, source, target)]
  /\ cu' = RedirectCall("save", i, source, target)
  /\ cres' = <<>>

loadRedirectFromCache(i, source) ==
  /\ cu' = RedirectCall("load", i, source, null)
  /\ cres' = <<ReadRedirect(redirectFiles, source)>>
  /\ UNCHANGED <<redirectFiles, redirectCache>>

RECURSIVE SetAll(_, _)
SetAll(cache, files) ==
  IF files = {} THEN cache
  ELSE LET f == CHOOSE g \in files : TRUE
       IN SetAll(Set(cache, f.source, f.target), files \ {f})

loadAllRedirects(i) ==
  /\ redirectCache' = [redirectCache EXCEPT ![i] = SetAll(@, redirectFiles)]
  /\ cu' = RedirectCall("loadAll", i, null, null)
  /\ cres' = <<>>
  /\ UNCHANGED redirectFiles

RedirectStep ==
  /\ \E i \in Instances :
       \/ construct(i)
       \/ \E source \in RedirectSources, target \in RedirectTargets, now \in 1..MaxClock :
            saveRedirectToCache(i, source, target, now)
       \/ \E source \in RedirectSources : loadRedirectFromCache(i, source)
       \/ loadAllRedirects(i)
  /\ UNCHANGED crawlVars

InitRedirect ==
  /\ CrawlIdle
  /\ PureIdle

SpecRedirect == InitRedirect /\ [][RedirectStep]_vars

(***************************************************************************)
(* normalizeMarkdownWhitespace on its own: every document of at most       *)
(* MaxDocLen characters over a letter, a space, a tab and a newline.       *)
(***************************************************************************)
MaxDocLen == 6

MarkdownChars == {"a", " ", "\t", "\n"}
\* the characters String.prototype.trim and trimEnd remove
WhiteSpace == {" ", "\t", "\n"}

\* markdown.split('\n')
RECURSIVE split(_)
split(s) ==
  IF \A i \in 1..Len(s) : s[i] # "\n" THEN <<s>>
  ELSE LET i == CHOOSE k \in 1..Len(s) : s[k] = "\n" /\ \A j \in 1..(k - 1) : s[j] # "\n"
       IN <<SubSeq(s, 1, i - 1)>> \o split(SubSeq(s, i + 1, Len(s)))

\* line.trimEnd()
RECURSIVE trimEnd(_)
trimEnd(s) ==
  IF s # <<>> /\ s[Len(s)] \in WhiteSpace THEN trimEnd(SubSeq(s, 1, Len(s) - 1)) ELSE s

RECURSIVE trimStart(_)
trimStart(s) ==
  IF s # <<>> /\ s[1] \in WhiteSpace THEN trimStart(Tail(s)) ELSE s

\* .trim()
trim(s) == trimStart(trimEnd(s))

\* lines.join('\n')
RECURSIVE join(_)
join(lines) ==
  IF lines = <<>> THEN <<>>
  ELSE IF Len(lines) = 1 THEN lines[1]
  ELSE lines[1] \o <<"\n">> \o join(Tail(lines))

\* .replace(/\n{3,}/g, '\n\n')
RECURSIVE collapseNewlines(_)
collapseNewlines(s) ==
  IF s = <<>> THEN <<>>
  ELSE IF Len(s) >= 3 /\ s[1] = "\n" /\ s[2] = "\n" /\ s[3] = "\n"
  THEN collapseNewlines(Tail(s))
  ELSE <<s[1]>> \o collapseNewlines(Tail(s))

\* .split('\n').map(line => line.trimEnd())
trimLines(markdown) ==
  LET lines == split(markdown)
  IN [i \in 1..Len(lines) |-> trimEnd(lines[i])]

\* the function without its final trim of the document
normalizeWithoutTrim(markdown) ==
  collapseNewlines(join(trimLines(markdown)))

normalizeMarkdownWhitespace(markdown) ==
  trim(collapseNewlines(join(trimLines(markdown))))

\* normalizeMarkdownWhitespace(cu), and again on its result
Normalize ==
  /\ cres = <<>>
  /\ cres' = <<[once |-> normalizeMarkdownWhitespace(cu[1]),
                twice |-> normalizeMarkdownWhitespace(normalizeMarkdownWhitespace(cu[1]))]>>
  /\ UNCHANGED <<cu, redirectFiles, redirectCache>>
  /\ UNCHANGED crawlVars

InitWhitespace ==
  /\ CrawlIdle
  /\ cu \in {<<s>> : s \in StringsOver(MarkdownChars, MaxDocLen)}
  /\ cres = <<>>
  /\ NoRedirects

SpecWhitespace == InitWhitespace /\ [][Normalize]_vars

(***************************************************************************)
(* The command line (src/src/index.mjs): the arguments are parsed with     *)
(* parseInt(., 10); a crawler is constructed and run unless an argument    *)
(* that was given parses to NaN.                                           *)
(***************************************************************************)
CliDefaultStaleThreshold == 86400

NaN == [t |-> "NaN", inf |-> FALSE, n |-> 0]

DecimalDigits == <<"0", "1", "2", "3", "4", "5", "6", "7", "8", "9">>
IsDecimalDigit(c) == \E i \in 1..Len(DecimalDigits) : DecimalDigits[i] = c
DigitValue(c) == (CHOOSE i \in 1..Len(DecimalDigits) : DecimalDigits[i] = c) - 1

\* the longest prefix of s made of decimal digits
RECURSIVE LeadingDigits(_)
LeadingDigits(s) ==
  IF s # <<>> /\ IsDecimalDigit(s[1]) THEN <<s[1]>> \o LeadingDigits(Tail(s)) ELSE <<>>

RECURSIVE DecimalValue(_, _)
DecimalValue(digits, acc) ==
  IF digits = <<>> THEN acc
  ELSE DecimalValue(Tail(digits), 10 * acc + DigitValue(digits[1]))

\* parseInt(str, 10): leading white space is skipped, a sign is read, then
\* digits up to the first other character; without a digit the result is NaN
parseInt(str) ==
  LET s == trimStart(str)
      signed == s # <<>> /\ s[1] \in {"+", "-"}
      digits == LeadingDigits(IF signed THEN Tail(s) ELSE s)
      value == DecimalValue(digits, 0)
  IN IF digits = <<>> THEN NaN
     ELSE IF signed /\ s[1] = "-" THEN Num(0 - value) ELSE Num(value)

ArgInfinity == <<"I", "n", "f", "i", "n", "i", "t", "y">>
ArgZero == <<"0">>
ArgTokens ==
  {ArgInfinity, ArgZero, <<"1", "0", "0">>, <<"5", "0">>, <<"3", "6", "0", "0">>,
   <<"8", "6", "4", "0", "0">>, <<"a", "b", "c">>, <<"1", "2", "p", "x">>,
   <<"-", "5">>, <<" ", "7">>}
MaxArgs == 2

\* process.argv.slice(2) is cu
main ==
  /\ pcRun = "idle"
  /\ LET args == cu
         parsedMaxPages == IF Len(args) > 0 THEN parseInt(args[1]) ELSE Infinity
         parsedThreshold == IF Len(args) > 1 THEN parseInt(args[2])
                            ELSE Num(CliDefaultStaleThreshold)
     IN IF \/ Len(args) > 0 /\ parsedMaxPages = NaN
           \/ Len(args) > 1 /\ parsedThreshold = NaN
        THEN /\ pcRun' = "exit1"
             /\ exitCode' = <<1>>
             /\ UNCHANGED <<options, maxPages, staleThreshold>>
        ELSE /\ options' = [maxPages |-> parsedMaxPages, staleThreshold |-> parsedThreshold]
             /\ maxPages' = OptionOr(parsedMaxPages, Num(DefaultMaxPages))
             /\ staleThreshold' = OptionOr(parsedThreshold, Num(DefaultStaleThreshold))
             /\ pcRun' = "start"
             /\ UNCHANGED exitCode
  /\ UNCHANGED <<outputDir, disk, browser, context, visited, visitedCanonical, pageCount,
                 cachedCount, cachedPages, allMarkdownContent, urlsToCrawl, stack,
                 artifacts, hist>>
  /\ UNCHANGED pureVars

InitCli ==
  /\ CrawlIdle
  /\ cu \in SeqsUpTo(ArgTokens, MaxArgs)
  /\ cres = <<>>
  /\ NoRedirects

SpecCli == InitCli /\ [][main]_vars

(***************************************************************************)
(* Vocabulary of the properties.                                           *)
(***************************************************************************)
IsVersioned(url) == extractVersion(url) # null

\* initialize() has run the loader and no record has been written since.
LoaderRan == pcRun \notin {"start", "idle"} /\ outputDir = "present" /\ hist.saved = {}

IsComplete(rec) == rec.hasHtml /\ rec.hasMd

\* The activation on top of the stack has just been called with url.
Visiting(url) == stack # <<>> /\ Top.url = url /\ Top.pc = "enter"

\* No activation of crawlPage(url) is on the stack.
NotOnStack(url) == \A i \in 1..Len(stack) : stack[i].url # url

\* This step starts the step-5 fetch of url.
FetchStarts(url) == url \in hist'.fetched /\ url \notin hist.fetched

\* This step issues the existence probe of the canonical URL of the visited url.
ProbeStarts(url) ==
  /\ stack # <<>>
  /\ Top.pc = "enter"
  /\ Top.url = url
  /\ Len(stack') = Len(stack)
  /\ stack'[Len(stack')].pc = "probe"

RunEnded == pcRun \in {"done", "exit1", "rejected"}

ArtifactsWritten == artifacts.summary # <<>> /\ artifacts.corpus # <<>>

(***************************************************************************)
(* C1.  pageCount never exceeds maxPages, and it counts exactly the        *)
(* step-5 fetches: cache hits, suppressed versions and probes leave it     *)
(* alone.                                                                  *)
(***************************************************************************)
C1_PageBudget ==
  /\ maxPages.inf \/ pageCount <= maxPages.n
  /\ pageCount = Cardinality(hist.fetched)

\* The budget is used up, a probe was made, a page came from the cache, and a
\* further URL is being visited.
C1_Witness ==
  /\ ~maxPages.inf
  /\ pageCount = maxPages.n
  /\ pageCount >= 1
  /\ hist.probed # {}
  /\ cachedCount >= 1
  /\ stack # <<>>
  /\ Top.pc = "enter"

(***************************************************************************)
(* C2.  No navigation, step-5 fetch or probe, is ever issued to a URL for  *)
(* which the loader found a fresh complete record.                         *)
(***************************************************************************)
C2_NoNavigationToFreshUrl ==
  \A url \in cachedPages : url \notin hist.fetched /\ url \notin hist.probed

\* The part of C2 that the code keeps: no step-5 fetch of a fresh URL, and no
\* probe of a fresh URL that carries no version token.
C2_NoFetchOfFreshUrl ==
  \A url \in cachedPages :
    /\ url \notin hist.fetched
    /\ ~IsVersioned(url) => url \notin hist.probed

(***************************************************************************)
(* C3.  Once the canonical probe of a versioned URL V has succeeded, V is  *)
(* never step-5 fetched and no record is written for it, and when the      *)
(* visit of its canonical URL C returns, C has been step-5 fetched.        *)
(***************************************************************************)
C3_CanonicalInsteadOfVersion ==
  \A v \in hist.probeOk :
    /\ v \notin hist.fetched
    /\ \A r \in hist.saved : r.req # v
    /\ (stack # <<>> /\ Top.url = v /\ Top.pc = "canon") => getCanonicalUrl(v) \in hist.fetched

\* The same for the versioned URLs whose canonical URL carries no version token.
C3_SingleVersionOnly ==
  \A v \in hist.probeOk :
    ~IsVersioned(getCanonicalUrl(v)) =>
      /\ v \notin hist.fetched
      /\ \A r \in hist.saved : r.req # v
      /\ (stack # <<>> /\ Top.url = v /\ Top.pc = "canon") =>
           getCanonicalUrl(v) \in hist.fetched

(***************************************************************************)
(* C4.  Once the canonical probe of a versioned URL V has failed, V is     *)
(* step-5 fetched and its canonical URL C is in CanonicalSet; from then on *)
(* no other versioned URL with canonical C is probed or fetched.           *)
(* As claimed: V is also persisted by the time its visit has returned.     *)
(* As amended: V is persisted by the time its links are followed.          *)
(***************************************************************************)
\* The other versioned URLs of the site with the canonical URL of v.
OtherVersions ==
  [v \in Urls |->
     {u \in Urls : u # v /\ IsVersioned(u) /\ getCanonicalUrl(u) = getCanonicalUrl(v)}]

C4_FallbackMarked ==
  \A v \in hist.probeFailed :
    /\ v \in hist.fetched
    /\ v \in visited
    /\ getCanonicalUrl(v) \in visitedCanonical

C4_OthersSuppressed ==
  \A v \in hist.probeFailed : \A u \in OtherVersions[v] : ~FetchStarts(u) /\ ~ProbeStarts(u)

C4_PersistedBeforeLinks ==
  \A v \in hist.probeFailed :
    (stack' # <<>> /\ stack'[Len(stack')].url = v /\ stack'[Len(stack')].pc = "links")
      => \E r \in hist'.saved : r.req = v

C4_Original_FallbackPersisted ==
  \A v \in hist.probeFailed :
    /\ v \in hist.fetched
    /\ getCanonicalUrl(v) \in visitedCanonical
    /\ NotOnStack(v) => \E r \in hist.saved : r.req = v

C4_FallbackFetched ==
  [][C4_FallbackMarked /\ C4_FallbackMarked' /\ C4_OthersSuppressed
       /\ C4_PersistedBeforeLinks]_vars

\* V1A was fetched and persisted after its probe failed, and V2A is now visited.
C4_Witness ==
  /\ V1A \in hist.probeFailed
  /\ \E r \in hist.saved : r.req = V1A
  /\ Visiting(V2A)

(***************************************************************************)
(* C5.  With a staleness threshold of 0 the loader reads no record and     *)
(* loads nothing: the cached-record map, cachedCount and the candidate set *)
(* stay empty, and every URL that enters VisitedSet is step-5 fetched,     *)
(* also when a record of it is on disk.                                    *)
(***************************************************************************)
C5_ZeroThresholdLoadsNothing ==
  (options.staleThreshold = Num(0)) =>
    /\ hist.filesRead = 0
    /\ cachedPages = {}
    /\ cachedCount = 0
    /\ visited = hist.fetched
    /\ \A i \in 1..Len(allMarkdownContent) : allMarkdownContent[i].from = "live"
    /\ hist.fetched = {} => (visitedCanonical = {} /\ urlsToCrawl = <<>>)

\* PageA is being fetched while its record of the previous run is on disk.
C5_Witness ==
  /\ options.staleThreshold = Num(0)
  /\ PageA \in hist.fetched
  /\ \E i \in 1..Len(disk) : disk[i].url = PageA /\ disk[i].age = AgeRecent

(***************************************************************************)
(* C6.  As claimed: with an absent or unbounded threshold every complete   *)
(* record is fresh whatever its age.                                       *)
(* As amended: with an unbounded threshold every complete record with a    *)
(* readable crawledAt is fresh; with an absent threshold the default of    *)
(* 86400 s applies, and such a record is fresh exactly when it is younger. *)
(***************************************************************************)
C6_Original_AbsentIsUnbounded ==
  (LoaderRan /\ options.staleThreshold \in {Absent, Infinity}) =>
    \A i \in 1..Len(disk) :
      (IsComplete(disk[i]) /\ disk[i].timeOk) => disk[i].url \in cachedPages

C6_AbsentIsOneDay ==
  LoaderRan =>
    \A i \in 1..Len(disk) :
      (IsComplete(disk[i]) /\ disk[i].timeOk) =>
        /\ options.staleThreshold = Infinity => disk[i].url \in cachedPages
        /\ options.staleThreshold = Absent =>
             (disk[i].url \in cachedPages <=> disk[i].age < DefaultStaleThreshold * 1000)

\* Absent threshold: a record one millisecond under a day old was loaded.
C6_Witness ==
  /\ LoaderRan
  /\ options.staleThreshold = Absent
  /\ \E i \in 1..Len(disk) : disk[i].age = AgeJustUnderOneDay /\ disk[i].url \in cachedPages

(***************************************************************************)
(* C7.  getCanonicalUrl is idempotent, and a canonical URL carries no      *)
(* version token.                                                          *)
(***************************************************************************)
C7_CanonicalIdempotent ==
  cres # <<>> => (cres[1].twice = cres[1].canonical /\ cres[1].version = null)

(***************************************************************************)
(* C8.  URLs that differ only in the version token have the same canonical *)
(* URL, which is the URL without the token; a URL without a version token  *)
(* is its own canonical URL.                                               *)
(***************************************************************************)
\* rest begins with a digit segment that is followed by a slash.
BeginsWithToken(rest) ==
  \E k \in 1..(Len(rest) - 1) : rest[k + 1] = "/" /\ \A i \in 1..k : rest[i] \in Digits

VersionedUrls == {v \in Urls : IsVersioned(v)}

\* v, its canonical URL and the other versions of that URL.
Family == [v \in Urls |-> {v, getCanonicalUrl(v)} \cup OtherVersions[v]]

Resolved(v) == hist.fetched \cap {v, getCanonicalUrl(v)} # {}

C9_NoDuplicateCrawl ==
  [][\A v \in VersionedUrls : Resolved(v) =>
       \A u \in Family[v] : ~FetchStarts(u) /\ ~ProbeStarts(u)]_vars

(***************************************************************************)
(* C10.  Every run ends after close(): the browser is not left open, and   *)
(* the manifest and the corpus are written.                                *)
(* As amended: they are written whenever the output directory exists; a    *)
(* run whose output directory could not be created ends with close()       *)
(* throwing and writes nothing.                                            *)
(***************************************************************************)
C10_Original_AlwaysFinalized ==
  RunEnded => (browser # "open" /\ ArtifactsWritten)

C10_FinalizedWhenWritable ==
  /\ RunEnded => browser # "open"
  /\ (RunEnded /\ outputDir = "present") =>
       /\ ArtifactsWritten
       /\ artifacts.summary[1].totalPages = pageCount
       /\ artifacts.corpus[1].documents = allMarkdownContent
  /\ pcRun = "rejected" <=> (RunEnded /\ outputDir # "present")
  /\ (pcRun \in {"start", "candidates", "base", "close", "catch"}) => ENABLED Next

\* The error path with no page processed: the browser was closed and both
\* artifacts were written.
C10_Witness ==
  /\ pcRun = "exit1"
  /\ browser = "closed"
  /\ ArtifactsWritten
  /\ pageCount = 0
  /\ artifacts.corpus[1].documents = <<>>

(***************************************************************************)
(* C11.  Scenario A: empty cache, maxPages = 1.                            *)
(* As claimed: the run that completes has fetched the seed, written        *)
(* exactly one record, for the seed, and reports totalPages = 1 and        *)
(* cachedPages = 0.                                                        *)
(* As amended: only the seed is ever visited, probed never, fetched at     *)
(* most once and none of its links is followed; the run that completes     *)
(* has fetched the seed and reports totalPages = 1 and cachedPages = 0;    *)
(* it has written one record, for the seed, or none when the navigation or *)
(* the extraction of the seed failed.                                      *)
(***************************************************************************)
\* The progress directory held no record when the run started.
EmptyCache == IF pcRun = "start" THEN disk = <<>> ELSE hist.found = 0

ScenarioA == EmptyCache /\ options.maxPages = Num(1)

C11_Original_OneRecord ==
  (ScenarioA /\ pcRun = "done") =>
    /\ hist.fetched = {baseUrl}
    /\ Cardinality(hist.saved) = 1
    /\ \A r \in hist.saved : r.req = baseUrl
    /\ artifacts.summary[1].totalPages = 1
    /\ artifacts.summary[1].cachedPages = 0

C11_SeedOnly ==
  ScenarioA =>
    /\ Len(stack) <= 1
    /\ \A i \in 1..Len(stack) : stack[i].url = baseUrl
    /\ hist.fetched \subseteq {baseUrl}
    /\ hist.probed = {}
    /\ Cardinality(hist.saved) <= 1
    /\ \A r \in hist.saved : r.req = baseUrl
    /\ Len(allMarkdownContent) = Cardinality(hist.saved)
    /\ Len(disk) = Cardinality(hist.saved)
    /\ pcRun = "done" =>
         /\ hist.fetched = {baseUrl}
         /\ artifacts.summary[1].totalPages = 1
         /\ artifacts.summary[1].cachedPages = 0

\* The seed was fetched and persisted, its links are at hand and the budget is used up.
C11_Witness ==
  /\ ScenarioA
  /\ stack # <<>>
  /\ Top.pc = "links"
  /\ Top.links # <<>>
  /\ Cardinality(hist.saved) = 1
  /\ pageCount = 1

(***************************************************************************)
(* C12.  Scenario B: one fresh record for P whose stored document has two  *)
(* links, a threshold that makes it fresh, a finite budget of at least two *)
(* pages.                                                                  *)
(* As claimed: P is never fetched, both links have been passed to          *)
(* crawlPage when the run completes, and the manifest reports              *)
(* cachedPages = 1.                                                        *)
(* As amended: P is never fetched and the manifest reports cachedPages =   *)
(* 1; the links are passed to crawlPage in the order of the stored         *)
(* document, the second one only if pageCount is still below maxPages      *)
(* after the visit of the first and of everything reached from it.         *)
(***************************************************************************)
ScenarioB ==
  /\ pcRun # "start"
  /\ hist.found = 1
  /\ cachedCount = 1
  /\ hist.harvested = 2
  /\ staleThreshold = Infinity
  /\ ~maxPages.inf
  /\ maxPages.n >= 2

C12_Original_BothLinksAttempted ==
  (ScenarioB /\ pcRun = "done") =>
    /\ cachedPages \cap hist.fetched = {}
    /\ urlsToCrawl = <<>>
    /\ artifacts.summary[1].cachedPages = 1

C12_CachedPageAndCandidates ==
  [][ScenarioB =>
       /\ cachedPages \cap hist'.fetched = {}
       /\ ArtifactsWritten' => artifacts'.summary[1].cachedPages = 1
       /\ (pcRun = "candidates" /\ urlsToCrawl' # urlsToCrawl) =>
            (stack' = <<Frame(Head(urlsToCrawl))>> /\ urlsToCrawl' = Tail(urlsToCrawl))
       /\ (pcRun = "candidates" /\ pcRun' = "base") =>
            (urlsToCrawl = <<>> \/ pageCount >= maxPages.n)
       /\ (pcRun = "done" /\ urlsToCrawl # <<>>) => pageCount >= maxPages.n]_vars

\* The second link of P is being visited after the first one led to a fetch.
C12_Witness ==
  /\ ScenarioB
  /\ pcRun = "candidates"
  /\ urlsToCrawl = <<>>
  /\ Visiting(V1A)
  /\ W12A \in hist.fetched

(***************************************************************************)
(* C13.  When initialize() fails (the output directories cannot be         *)
(* created, or the browser or its context cannot be started), no page is   *)
(* visited, close() is still run, and the process ends with a non-zero     *)
(* exit status.                                                            *)
(***************************************************************************)
InitFailed == pcRun # "start" /\ (outputDir = "unusable" \/ ~context)

C13_InitFailureExitsNonZero ==
  InitFailed =>
    /\ stack = <<>>
    /\ hist.fetched = {} /\ hist.probed = {} /\ pageCount = 0
    /\ pcRun \in {"catch", "exit1", "rejected"}
    /\ RunEnded => (browser # "open" /\ exitCode # <<>> /\ exitCode[1] # 0)

\* The part of C13 that the code keeps: no page is visited and close() is run; the
\* status is 1 when the output directory exists, where close() returns and
\* process.exit(1) is reached.
C13_BrowserFailureExitsOne ==
  InitFailed =>
    /\ stack = <<>>
    /\ hist.fetched = {} /\ hist.probed = {} /\ pageCount = 0
    /\ pcRun \in {"catch", "exit1", "rejected"}
    /\ RunEnded => browser # "open"
    /\ (RunEnded /\ outputDir = "present") => (pcRun = "exit1" /\ exitCode = <<1>>)

(***************************************************************************)
(* C14.  A page-level failure never aborts the run.  Once initialize() has *)
(* succeeded, run() never enters its catch block; whenever an activation   *)
(* of crawlPage returns, after a failure or not, its caller resumes with   *)
(* its remaining links and the candidates untouched; the next link or      *)
(* candidate is visited as long as the budget is not used up; some step is *)
(* possible until the run is done, and it is done with close() having      *)
(* written the artifacts and with exit status 0.                           *)
(***************************************************************************)
C14_PageFailuresContained ==
  [][context =>
       /\ pcRun' \in {"candidates", "base", "close", "done"}
       /\ pcRun # "done" => ENABLED Next
       /\ Len(stack') < Len(stack) => (stack' = Popped /\ urlsToCrawl' = urlsToCrawl)
       /\ (stack # <<>> /\ Top.pc = "links" /\ Top.links # <<>> /\ ~BudgetReached) =>
            stack' = Append(WithTop([Top EXCEPT !.links = Tail(@)]), Frame(Head(Top.links)))
       /\ (pcRun = "candidates" /\ stack = <<>> /\ urlsToCrawl # <<>> /\ ~BudgetReached) =>
            stack' = <<Frame(Head(urlsToCrawl))>>
       /\ pcRun' = "done" => (exitCode' = <<0>> /\ ArtifactsWritten')]_vars

\* The run is done; the fetch of V1A failed, and PageA, the link after V1A, was
\* fetched and persisted afterwards.
C14_Witness ==
  /\ pcRun = "done"
  /\ V1A \in hist.fetched
  /\ \A r \in hist.saved : r.req # V1A
  /\ \E r \in hist.saved : r.req = PageA

(***************************************************************************)
(* C15  Redirect-cache round trip: after saveRedirectToCache(source,       *)
(* target) on a crawler, loadRedirectFromCache(source) returns target, a   *)
(* '.redirect.json' file holding source, target and cachedAt exists in the *)
(* progress directory, and a new crawler instance over the same output     *)
(* directory has redirectCache.get(source) = target after                  *)
(* loadAllRedirects().  As a property of every step: a save leaves the     *)
(* file and the mapping behind, only a save of the same source replaces a  *)
(* redirect file, a load returns what the file holds, and loadAllRedirects *)
(* gives the calling instance the target of every file.                    *)
(***************************************************************************)
RedirectCalled(op) == cu # <<>> /\ cu[1].op = op

NoTripleNewline(s) ==
  \A i \in 1..(Len(s) - 2) : ~(s[i] = "\n" /\ s[i + 1] = "\n" /\ s[i + 2] = "\n")

NoLineEndsWithWhitespace(s) ==
  \A i \in 1..Len(s) :
    s[i] \in WhiteSpace \ {"\n"} => i < Len(s) /\ s[i + 1] # "\n"

NoEdgeWhitespace(s) ==
  s # <<>> => s[1] \notin WhiteSpace /\ s[Len(s)] \notin WhiteSpace

HoldsText(line) == \E i \in 1..Len(line) : line[i] \notin WhiteSpace
TextLines(s) == SelectSeq(split(s), HoldsText)
Indentation(line) ==
  LET first == CHOOSE i \in 1..Len(line) :
                 line[i] \notin WhiteSpace /\ \A j \in 1..(i - 1) : line[j] \in WhiteSpace
  IN SubSeq(line, 1, first - 1)

IndentationPreserved(input, output) ==
  /\ Len(TextLines(output)) = Len(TextLines(input))
  /\ \A k \in 2..Len(TextLines(output)) :
       Indentation(TextLines(output)[k]) = Indentation(TextLines(input)[k])

C16_NormalForm ==
  cres # <<>> =>
    /\ NoTripleNewline(cres[1].once)
    /\ NoLineEndsWithWhitespace(cres[1].once)
    /\ NoEdgeWhitespace(cres[1].once)
    /\ IndentationPreserved(cu[1], cres[1].once)
    /\ cres[1].twice = cres[1].once

\* three newlines and an indented second line: 'a\n\n\n\ta' becomes 'a\n\n\ta'
C16_Witness ==
  /\ cu = << <<"a", "\n", "\n", "\n", "\t", "a">> >>
  /\ cres # <<>>
  /\ cres[1].once = <<"a", "\n", "\n", "\t", "a">>

(***************************************************************************)
(* C17  The documented command line 'Infinity 0' (first argument the       *)
(* literal Infinity) starts a crawl with an unlimited page budget and      *)
(* caching disabled, rather than being rejected as a non-numeric maxPages. *)
(***************************************************************************)
C17_InfinityZeroStartsUnlimitedCrawl ==
  (cu = <<ArgInfinity, ArgZero>> /\ pcRun # "idle") =>
    /\ pcRun = "start"
    /\ exitCode = <<>>
    /\ maxPages = Infinity
    /\ staleThreshold = Num(0)

\* what the code does with it: no crawler is constructed, the process exits with 1
C17_InfinityZeroRejected ==
  (cu = <<ArgInfinity, ArgZero>> /\ pcRun # "idle") =>
    /\ pcRun = "exit1"
    /\ exitCode = <<1>>
    /\ options = [maxPages |-> Absent, staleThreshold |-> Absent]

\* the other documented command lines start the crawl they describe
C17_NumericArgumentsAccepted ==
  (cu = << <<"1", "0", "0">>, <<"3", "6", "0", "0">> >> /\ pcRun # "idle") =>
    /\ pcRun = "start"
    /\ maxPages = Num(100)
    /\ staleThreshold = Num(3600)

(***************************************************************************)
(* C18  A call crawlPage(u) that terminates at a guard (u already in       *)
(* VisitedSet, or pageCount >= maxPages, or u is versioned and its         *)
(* canonical is already in CanonicalSet) changes no state at all           *)
(* (VisitedSet, CanonicalSet, pageCount, cachedCount, output accumulation, *)
(* persisted records unchanged) and issues no probe and no fetch: the only *)
(* step from such a call is its return.                                    *)
(***************************************************************************)
AtGuard ==
  /\ stack # <<>>
  /\ Top.pc = "enter"
  /\ \/ Top.url \in visited
     \/ BudgetReached
     \/ IsVersioned(Top.url) /\ getCanonicalUrl(Top.url) \in visitedCanonical

C18_GuardHasNoEffect ==
  [][AtGuard =>
       /\ stack' = Popped
       /\ UNCHANGED <<visited, visitedCanonical, pageCount, cachedCount, cachedPages,
                      allMarkdownContent, disk, urlsToCrawl, artifacts>>
       /\ hist' = hist
    ]_vars

\* crawlPage(V2A) called from a page: V2A is not visited and the budget is not
\* used up, but its canonical PageA is resolved
C18_Witness ==
  /\ AtGuard
  /\ Top.url = V2A
  /\ V2A \notin visited
  /\ ~BudgetReached
  /\ PageA \in visited
  /\ Len(stack) > 1

\* a call refused by the budget alone
C18_WitnessBudget ==
  /\ AtGuard
  /\ BudgetReached
  /\ Top.url \notin visited
  /\ ~IsVersioned(Top.url)

(***************************************************************************)
(* C19  In step 5 of crawlPage(u), u is added to VisitedSet, canonical(u)  *)
(* is added to CanonicalSet and pageCount is incremented before the first  *)
(* navigation attempt for u is issued; at no moment is a step-5 navigation *)
(* to u in flight while u is absent from VisitedSet.  Every activation     *)
(* that is past the marking (about to open its page, navigating, or        *)
(* working on the loaded page) has its URL in VisitedSet, its canonical    *)
(* URL in CanonicalSet and its unit counted in pageCount.                  *)
(***************************************************************************)
PastMarking(frame) == frame.pc \in {"page", "nav", "loaded", "links"}
NavigationInFlight(url) ==
  \E i \in 1..Len(stack) : stack[i].url = url /\ stack[i].pc = "nav"

C19_MarkedBeforeNavigation ==
  /\ \A i \in 1..Len(stack) :
       PastMarking(stack[i]) =>
         /\ stack[i].url \in visited
         /\ getCanonicalUrl(stack[i].url) \in visitedCanonical
         /\ stack[i].url \in hist.fetched
  /\ pageCount = Cardinality(hist.fetched)
  /\ pageCount >= Cardinality({i \in 1..Len(stack) : PastMarking(stack[i])})

\* the first navigation attempt for V1A is in flight, after its probe failed
C19_Witness ==
  /\ NavigationInFlight(V1A)
  /\ Top.url = V1A
  /\ Top.att = 1
  /\ V1A \in hist.probeFailed
  /\ V1A \in visited
  /\ PageA \in visitedCanonical
  /\ pageCount = 2

(***************************************************************************)
(* C20  Each URL undergoes at most one step-5 fetch (one retry sequence)   *)
(* per run: a URL whose fetch failed on every attempt stays in VisitedSet, *)
(* has consumed exactly one unit of the page budget, and is never fetched  *)
(* again in that run even when other pages link to it.  As a property of   *)
(* every step: VisitedSet never loses a URL, pageCount never decreases and *)
(* changes only by the one unit of a URL that was neither visited nor      *)
(* fetched before, and the return after the last failed attempt leaves     *)
(* the URL visited and its unit spent.                                     *)
(***************************************************************************)
LastAttemptFails ==
  /\ stack # <<>>
  /\ Top.pc = "nav"
  /\ Top.att = maxRetries
  /\ stack' = Popped

C20_OneFetchPerUrl ==
  [][/\ visited \subseteq visited'
     /\ hist.fetched \subseteq hist'.fetched
     /\ pageCount' # pageCount =>
          /\ stack # <<>>
          /\ pageCount' = pageCount + 1
          /\ Top.url \notin visited
          /\ Top.url \notin hist.fetched
          /\ Top.url \in visited'
          /\ hist'.fetched = hist.fetched \cup {Top.url}
     /\ hist'.fetched # hist.fetched => pageCount' = pageCount + 1
     /\ LastAttemptFails =>
          /\ Top.url \in visited'
          /\ pageCount' = pageCount
          /\ Top.url \in hist'.fetched
    ]_vars

\* V1A was fetched and left no record, the budget is not used up, and a page
\* that links to V1A has just called crawlPage(V1A) again
C20_Witness ==
  /\ Visiting(V1A)
  /\ Len(stack) > 1
  /\ \A i \in 1..(Len(stack) - 1) : stack[i].url # V1A
  /\ V1A \in hist.fetched
  /\ \A s \in hist.saved : s.req # V1A
  /\ V1A \in visited
  /\ ~BudgetReached

(***************************************************************************)
(* C21  A step-5 fetch issues at most 3 navigation attempts for its URL,   *)
(* strictly one after another; attempt k+1 is issued only if attempt k     *)
(* failed, no attempt is issued after the first successful one, and the    *)
(* page-level failure is raised only after the 3rd attempt fails.  Every   *)
(* activation is on attempt 1, 2 or 3 once it navigates; the first attempt *)
(* follows the opening of the page, a later attempt k+1 replaces attempt k *)
(* of the same activation, which therefore did not succeed; an activation  *)
(* whose page is loaded never navigates again; and an activation that      *)
(* returns while navigating was on its 3rd attempt.                        *)
(***************************************************************************)
SameActivation ==
  /\ stack # <<>>
  /\ Len(stack') = Len(stack)
  /\ stack'[Len(stack')].url = Top.url

AttemptIssued ==
  /\ stack' # <<>>
  /\ stack'[Len(stack')].pc = "nav"
  /\ (stack = <<>> \/ Len(stack') # Len(stack) \/ Top.pc # "nav"
        \/ stack'[Len(stack')].att # Top.att)

C21_AtMostThreeAttempts ==
  [][/\ \A i \in 1..Len(stack') :
          stack'[i].pc \in {"nav", "loaded", "links"} => stack'[i].att \in 1..3
     /\ \A i \in 1..Len(stack') :
          stack'[i].pc = "nav" => i = Len(stack')
     /\ AttemptIssued =>
          /\ SameActivation
          /\ \/ Top.pc = "page" /\ stack'[Len(stack')].att = 1
             \/ Top.pc = "nav" /\ stack'[Len(stack')].att = Top.att + 1
     /\ (stack # <<>> /\ Top.pc = "nav" /\ SameActivation
           /\ stack'[Len(stack')].pc = "loaded") =>
          stack'[Len(stack')].att = Top.att
     /\ (stack # <<>> /\ Top.pc \in {"loaded", "links"} /\ SameActivation) =>
          stack'[Len(stack')].pc \in {"loaded", "links"}
     /\ (stack # <<>> /\ Top.pc = "nav" /\ Len(stack') < Len(stack)) =>
          (Top.att = 3 /\ stack' = Popped)
    ]_vars

\* the third attempt for V1A succeeded: its page is loaded
C21_Witness ==
  /\ stack # <<>>
  /\ Top.url = V1A
  /\ Top.pc = "loaded"
  /\ Top.att = 3

(***************************************************************************)
(* C22  In the step-5 retry loop, attempt n (n = 1, 2, 3) is given a       *)
(* timeout of exactly n times the fixed base timeout (10000 ms), so the    *)
(* timeouts are strictly increasing across the attempts of one URL and     *)
(* restart at the base timeout for every new URL.                          *)
(***************************************************************************)
C22_ProgressiveTimeout ==
  [][/\ \A i \in 1..Len(stack') :
          stack'[i].pc = "nav" =>
            /\ stack'[i].att \in 1..3
            /\ stack'[i].timeout = stack'[i].att * 10000
     /\ (stack # <<>> /\ Top.pc = "nav" /\ AttemptIssued) =>
          stack'[Len(stack')].timeout > Top.timeout
     /\ (stack # <<>> /\ Top.pc = "page" /\ AttemptIssued) =>
          stack'[Len(stack')].timeout = 10000
    ]_vars

\* the third attempt for V1A, a link of the base page, is in flight with a
\* timeout of 30 s
C22_Witness ==
  /\ Len(stack) = 2
  /\ Top.url = V1A
  /\ Top.pc = "nav"
  /\ Top.att = 3
  /\ Top.timeout = 30000
  /\ stack[1].url = baseUrl
  /\ stack[1].pc = "links"

(***************************************************************************)
(* C23  If navigation to a URL succeeds but content extraction then fails, *)
(* no further navigation attempt is made for that URL, no CrawlRecord is   *)
(* persisted and no document is appended for it, none of its links are     *)
(* followed, the page is closed, and the caller continues with the next    *)
(* link.  The step on which the extraction fails is the return of the      *)
(* activation, with its page closed and nothing written; the URL is not    *)
(* navigated to afterwards and no record is ever written for its fetch;    *)
(* the caller, back on top, visits its next link unless the budget is used *)
(* up.                                                                     *)
(***************************************************************************)
ExtractionFails == hist'.extractFailed # hist.extractFailed

OpenPages == Cardinality({i \in 1..Len(stack) : stack[i].pc \in {"probe", "nav", "loaded"}})

C23_ExtractionFailureNotRetried ==
  [][/\ ExtractionFails =>
          /\ stack # <<>>
          /\ Top.pc = "loaded"
          /\ hist'.extractFailed = hist.extractFailed \cup {Top.url}
          /\ stack' = Popped
          /\ hist'.open = hist.open - 1
          /\ UNCHANGED <<disk, allMarkdownContent, visited, visitedCanonical, pageCount,
                         urlsToCrawl>>
          /\ hist'.saved = hist.saved
     /\ hist'.open = OpenPages'
     /\ \A url \in hist.extractFailed :
          /\ ~NavigationInFlight(url)'
          /\ \A s \in hist'.saved : s.req # url
          /\ \A i \in 1..Len(stack') : stack'[i].url = url => ~PastMarking(stack'[i])
     /\ (stack # <<>> /\ Top.pc = "links" /\ Top.links # <<>> /\ ~BudgetReached) =>
          stack' = Append(WithTop([Top EXCEPT !.links = Tail(@)]), Frame(Head(Top.links)))
    ]_vars

\* the extraction failed on the loaded page of V1A, and the base page went on to
\* PageA, its next link, whose record is written
C23_Witness ==
  /\ V1A \in hist.extractFailed
  /\ \A s \in hist.saved : s.req # V1A
  /\ \E s \in hist.saved : s.req = PageA
  /\ hist.open = 0
  /\ pcRun = "done"

(***************************************************************************)
(* C24  The loader classifies a complete record as fresh exactly when      *)
(* now - crawledAt is strictly less than the threshold: a record whose age *)
(* equals the threshold, or whose crawledAt cannot be parsed as a time, is *)
(* stale, and a stale record adds nothing to VisitedSet, CanonicalSet, the *)
(* output accumulation or the candidate links.                             *)
(***************************************************************************)
\* now - crawledAt < threshold, in milliseconds, for the threshold in seconds
YoungerThan(rec, threshold) ==
  rec.timeOk /\ rec.jsonOk /\ (threshold.inf \/ rec.age < threshold.n * 1000)

FreshRecords == {i \in 1..Len(disk) : IsComplete(disk[i]) /\ YoungerThan(disk[i], staleThreshold)}

C24_FreshIffStrictlyYounger ==
  LoaderRan =>
    /\ \A i \in 1..Len(disk) :
         IsComplete(disk[i]) => (disk[i].url \in cachedPages <=> i \in FreshRecords)
    /\ cachedPages = {disk[i].url : i \in FreshRecords}
    /\ visited \subseteq {disk[i].url : i \in FreshRecords}
    /\ visitedCanonical \subseteq {getCanonicalUrl(disk[i].url) : i \in FreshRecords}
    /\ \A k \in 1..Len(allMarkdownContent) :
         allMarkdownContent[k].url \in {disk[i].url : i \in FreshRecords}
    /\ Len(allMarkdownContent) <= Cardinality(FreshRecords)
    /\ \A k \in 1..Len(urlsToCrawl) :
         \E i \in FreshRecords : \E h \in Range(disk[i].links) : urlsToCrawl[k] = h.path

\* a threshold of one second: the record of 999 ms is loaded, the complete record
\* beside it, whose crawledAt cannot be parsed, is not
C24_Witness ==
  /\ LoaderRan
  /\ staleThreshold = Num(1)
  /\ Len(disk) = 2
  /\ disk[1].url = V2A /\ IsComplete(disk[1]) /\ disk[1].age = AgeRecent /\ disk[1].timeOk
  /\ disk[2].url = PageA /\ IsComplete(disk[2]) /\ ~disk[2].timeOk /\ disk[2].jsonOk
  /\ disk[2].links # <<>>
  /\ visited = {V2A}
  /\ urlsToCrawl = <<>>

\* the default threshold: the record whose age is exactly one day is stale
C24_WitnessEqualAge ==
  /\ LoaderRan
  /\ staleThreshold = Num(DefaultStaleThreshold)
  /\ Len(disk) = 1
  /\ IsComplete(disk[1]) /\ disk[1].timeOk /\ disk[1].age = AgeOneDay
  /\ visited = {}

(***************************************************************************)
(* C25  A persisted record for which the raw-document (.html) or the       *)
(* rendered-document (.md) companion is missing is treated as stale        *)
(* whatever its crawledAt timestamp is: its URL is not added to VisitedSet *)
(* or CanonicalSet, it is not counted in cachedCount, and its URL is       *)
(* refetched when reached during the run.  As long as the record is on     *)
(* disk without its companion, that is until the refetch has written it    *)
(* anew, its URL is not in the cached-record map, it is in                 *)
(* VisitedSet only once it is being fetched, CanonicalSet holds only the   *)
(* canonical URLs of loaded records and of fetched URLs, and cachedCount   *)
(* counts the other records at most; a call of crawlPage with its URL that *)
(* no guard stops starts its step-5 fetch, directly when the URL carries   *)
(* no version and when its existence probe has failed otherwise.           *)
(***************************************************************************)
Incomplete == {i \in 1..Len(disk) : ~IsComplete(disk[i])}
HasIncompleteRecord(url) == \E i \in Incomplete : disk[i].url = url

Initialized == pcRun \notin {"start", "idle"} /\ outputDir = "present"

C25_IncompleteRecordRefetched ==
  [][Initialized =>
       /\ \A i \in Incomplete :
            /\ disk[i].url \notin cachedPages
            /\ disk[i].url \in visited => disk[i].url \in hist.fetched
       /\ visitedCanonical \subseteq
            {getCanonicalUrl(u) : u \in cachedPages \cup hist.fetched}
       /\ cachedCount = Cardinality(cachedPages)
       /\ cachedCount <= Len(disk) - Cardinality(Incomplete)
       /\ \A u \in Urls :
            (HasIncompleteRecord(u) /\ Visiting(u) /\ ~AtGuard) =>
               IF IsVersioned(u) THEN ProbeStarts(u) ELSE FetchStarts(u)
       /\ \A u \in Urls :
            (HasIncompleteRecord(u) /\ stack # <<>> /\ Top.url = u /\ Top.pc = "probe"
               /\ Len(stack') = Len(stack)) => FetchStarts(u)
    ]_vars

\* the record of PageA has a recent crawledAt but no .md companion; nothing was
\* loaded from it and PageA, reached from the base page, is being fetched
C25_Witness ==
  /\ Initialized
  /\ disk # <<>>
  /\ disk[1].url = PageA /\ ~disk[1].hasMd /\ disk[1].age = AgeRecent
  /\ staleThreshold = Infinity
  /\ cachedCount = 0
  /\ cachedPages = {}
  /\ NavigationInFlight(PageA)

(***************************************************************************)
(* C26  A malformed persisted record (unparseable JSON, or a record whose  *)
(* url field is missing or not a string while its timestamp is recent) is  *)
(* dropped without failing the loader and without leaving any trace in     *)
(* cached state: after loading, VisitedSet, CanonicalSet, the              *)
(* cached-record map, the output accumulation, the candidate links and the *)
(* fresh count are exactly what they would be if that record did not       *)
(* exist.                                                                  *)
(***************************************************************************)
IsWellFormed(rec) == rec.jsonOk /\ rec.url # Undefined
WithoutMalformed(files) == SelectSeq(files, IsWellFormed)

\* The state the loader leaves is the one it leaves on the given record files.
LoadedAsFrom(files) ==
  LET load == loadCachedProgress(files, staleThreshold)
  IN /\ visited = load.visited
     /\ visitedCanonical = load.visitedCanonical
     /\ cachedPages = load.cachedPages
     /\ allMarkdownContent = load.md
     /\ cachedCount = load.freshCount
     /\ context => urlsToCrawl = load.urlsToCrawl

C26_MalformedLeavesNoTrace ==
  LoaderRan => /\ pcRun \in {"candidates", "catch"}
               /\ LoadedAsFrom(WithoutMalformed(disk))

\* the part that holds: a record file that does not parse leaves no trace
C26_UnparsableLeavesNoTrace ==
  (LoaderRan /\ \A i \in 1..Len(disk) : disk[i].url # Undefined) =>
     /\ pcRun \in {"candidates", "catch"}
     /\ LoadedAsFrom(WithoutMalformed(disk))

\* what the loader leaves of a recent record without url: the key undefined in
\* the cached-record map and in VisitedSet, and nothing else
C26_UrlLessRecordLeavesUndefined ==
  LoaderRan =>
    \A i \in 1..Len(disk) :
      (disk[i].url = Undefined /\ YoungerThan(disk[i], staleThreshold)) =>
         /\ Undefined \in cachedPages
         /\ Undefined \in visited
         /\ Undefined \notin visitedCanonical
         /\ cachedCount < Cardinality(cachedPages)

(***************************************************************************)
(* C27  After the loader finishes, for every fresh record r: r.url is in   *)
(* VisitedSet, getCanonicalUrl(r.url) is in CanonicalSet, r's stored       *)
(* rendered document appears exactly once in the output accumulation,      *)
(* every same-origin link of r's stored raw document is in the returned    *)
(* candidate set, and cachedCount equals the number of fresh records; the  *)
(* candidate set contains nothing but such links.                          *)
(***************************************************************************)
\* The URLs the hrefs of the stored document of rec resolve to on the site's
\* origin, and those among them whose href spells out the documentation path.
SameOriginLinks(rec) ==
  {h.path : h \in {g \in Range(rec.links) : g.prefix \in {"root", "rootPath", "relative"}}}
DocumentationLinks(rec) ==
  {h.path : h \in {g \in Range(rec.links) : g.prefix \in {"root", "rootPath"}}}

Occurrences(url) == {k \in 1..Len(allMarkdownContent) : allMarkdownContent[k].url = url}

\* The statement as the claim has it.
C27_FreshRecordsLoaded ==
  LoaderRan =>
    /\ \A i \in FreshRecords :
         /\ disk[i].url \in visited
         /\ getCanonicalUrl(disk[i].url) \in visitedCanonical
         /\ Cardinality(Occurrences(disk[i].url)) = 1
         /\ context => SameOriginLinks(disk[i]) \subseteq Range(urlsToCrawl)
    /\ cachedCount = Cardinality(FreshRecords)
    /\ Range(urlsToCrawl) \subseteq UNION {SameOriginLinks(disk[i]) : i \in FreshRecords}

\* The fresh records whose url is a string: the loader stops at
\* getCanonicalUrl(undefined) for the others, before it counts them.
FreshWithUrl == {i \in FreshRecords : disk[i].url # Undefined}

\* The statement for the links extractLinksFromHtml looks for: hrefs that contain
\* '/documentation/sitefinity-cms' and resolve under the base URL.  The candidate
\* links are exactly those, each once, and cachedCount is the number of fresh
\* records that have a url.
C27_FreshRecordsLoadedDocumentationLinks ==
  LoaderRan =>
    /\ \A i \in FreshWithUrl :
         /\ disk[i].url \in visited
         /\ getCanonicalUrl(disk[i].url) \in visitedCanonical
         /\ Cardinality(Occurrences(disk[i].url)) = 1
    /\ Len(allMarkdownContent) = Cardinality(FreshWithUrl)
    /\ cachedCount = Cardinality(FreshWithUrl)
    /\ context =>
         /\ Range(urlsToCrawl) = UNION {DocumentationLinks(disk[i]) : i \in FreshWithUrl}
         /\ Cardinality(Range(urlsToCrawl)) = Len(urlsToCrawl)

\* two fresh records with links; one stored document has a relative href, an
\* href to another site, and the same URL linked with a fragment and with a query
C27_Witness ==
  /\ LoaderRan /\ context
  /\ Len(disk) = 2
  /\ FreshWithUrl = {1, 2}
  /\ disk[1].links = Absolute(<<W12A, V1A>>)
  /\ \E h \in Range(disk[2].links) : h.prefix = "relative"
  /\ \E h \in Range(disk[2].links) : h.prefix = "otherSite"
  /\ urlsToCrawl = <<W12A, V1A>>
  /\ cachedCount = 2
  /\ Len(allMarkdownContent) = 2

\* the relative href of a fresh record with a url resolves to a page of the site
\* that is not among the candidate links
C27_WitnessRelativeLinkSkipped ==
  /\ LoaderRan /\ context
  /\ FreshRecords = FreshWithUrl
  /\ \E i \in FreshWithUrl : ~(SameOriginLinks(disk[i]) \subseteq Range(urlsToCrawl))

(***************************************************************************)
(* C28  Cached state is fixed once initialization returns: no step of      *)
(* crawlPage or of the run loop changes the cached-record map or           *)
(* cachedCount, and the cache check of crawlPage answers from that map     *)
(* alone: a URL whose record was written by a fetch of this run, and that  *)
(* is not in the map, is fetched when its visit reaches the check.         *)
(***************************************************************************)
\* This step takes the activation of url on top of the stack to the cache check:
\* from the guards, for a URL without version token, or from a failed probe.
ReachesCacheCheck(url) ==
  /\ stack # <<>>
  /\ Top.url = url
  /\ \/ /\ Top.pc = "enter"
        /\ url \notin visited
        /\ ~BudgetReached
        /\ extractVersion(url) = null
     \/ /\ Top.pc = "probe"
        /\ Len(stack') <= Len(stack)

\* The step returns from the activation without a fetch.
SkippedAsCached ==
  /\ stack' = Popped
  /\ hist'.fetched = hist.fetched
  /\ pageCount' = pageCount

\* The step goes on to the fetch of url.
GoesOnToFetch(url) ==
  /\ Len(stack') = Len(stack)
  /\ stack'[Len(stack')].pc = "page"
  /\ url \in hist'.fetched
  /\ pageCount' = pageCount + 1

SavedThisRun == {s.url : s \in hist.saved}

C28_CachedStateFixed ==
  [][Initialized =>
       /\ cachedPages' = cachedPages
       /\ cachedCount' = cachedCount
       /\ \A url \in Urls :
            ReachesCacheCheck(url) =>
              IF url \in cachedPages THEN SkippedAsCached ELSE GoesOnToFetch(url)]_vars

\* the base URL was fetched and saved under the URL it was redirected to; that
\* URL, now with a complete record on disk, is visited later and fetched again
C28_Witness ==
  /\ Initialized
  /\ PageA \in SavedThisRun
  /\ PageA \notin cachedPages
  /\ \E i \in 1..Len(disk) : disk[i].url = PageA /\ IsComplete(disk[i]) /\ disk[i].age = 0
  /\ stack # <<>>
  /\ Top.url = PageA
  /\ Top.pc = "page"
  /\ hist.fetched = {baseUrl, PageA}

(***************************************************************************)
(* C29  In the output accumulation written to the corpus every             *)
(* cache-loaded document precedes every freshly fetched document, and the  *)
(* freshly fetched documents appear in the order in which their fetches    *)
(* completed extraction: the step that saves a page appends that page's    *)
(* document at the end, and no other step after initialization changes the *)
(* accumulation, so that no document is ever removed or reordered.         *)
(***************************************************************************)
CacheLoadedFirst(documents) ==
  \A i, j \in 1..Len(documents) :
    (documents[i].from = "cache" /\ documents[j].from = "live") => i < j

\* This step completes the extraction of the page on top of the stack.
ExtractionCompletes == hist'.saved # hist.saved

C29_CorpusOrder ==
  [][/\ CacheLoadedFirst(allMarkdownContent')
     /\ Initialized =>
          IF ExtractionCompletes
          THEN \E s \in hist'.saved \ hist.saved :
                 /\ s.req = Top.url
                 /\ allMarkdownContent' =
                      Append(allMarkdownContent, [url |-> s.url, from |-> "live"])
          ELSE allMarkdownContent' = allMarkdownContent
     /\ artifacts'.corpus # <<>> =>
          artifacts'.corpus[1].documents = allMarkdownContent']_vars

\* a corpus of one cache-loaded document followed by two fetched ones, the
\* second fetched inside the visit of a link of the first
C29_Witness ==
  /\ artifacts.corpus # <<>>
  /\ Len(artifacts.corpus[1].documents) = 3
  /\ artifacts.corpus[1].documents[1].from = "cache"
  /\ artifacts.corpus[1].documents[2] = [url |-> baseUrl, from |-> "live"]
  /\ artifacts.corpus[1].documents[3].from = "live"
  /\ cachedCount = 1
  /\ pageCount = 2

(***************************************************************************)
(* C30  Traversal is depth-first in link-discovery order.  The links of a  *)
(* page are visited from the front of the list its link discovery          *)
(* returned, one at a time; while the visit of a link is in progress the   *)
(* activation of the page that linked to it does not move, so the next     *)
(* link is visited only after that visit and every visit made inside it    *)
(* have returned; and every fetch is made by the innermost visit.          *)
(***************************************************************************)
\* The activations below the innermost one are left as they are.
OuterActivationsWait ==
  \A i \in 1..(Len(stack) - 1) : i <= Len(stack') /\ stack'[i] = stack[i]

\* This step starts the visit of a link of the page on top of the stack.
LinkVisitStarts == stack # <<>> /\ Top.pc = "links" /\ Len(stack') = Len(stack) + 1

\* The link loop of the activation on top of the stack ends.
LinkLoopEnds == stack # <<>> /\ Top.pc = "links" /\ stack' = Popped

C30_DepthFirst ==
  [][/\ OuterActivationsWait
     /\ Len(stack') <= Len(stack) + 1
     /\ \A url \in Urls : FetchStarts(url) => Top.url = url
     /\ (stack # <<>> /\ Top.pc = "loaded" /\ Len(stack') = Len(stack)) =>
          stack'[Len(stack')].pc = "links" /\ stack'[Len(stack')].links \in LinkLists
     /\ (stack # <<>> /\ Top.pc = "links") =>
          /\ LinkVisitStarts \/ LinkLoopEnds
          /\ LinkVisitStarts =>
               /\ Top.links # <<>>
               /\ stack'[Len(stack')] = Frame(Head(Top.links))
               /\ stack'[Len(stack)] = [Top EXCEPT !.links = Tail(Top.links)]
          /\ LinkLoopEnds => Top.links = <<>> \/ BudgetReached]_vars

\* the base page linked to V1A and then V2A; inside the visit of V1A the page
\* without version token is fetched and its own links are found, while V2A is
\* still waiting in the loop of the base page
C30_Witness ==
  /\ Len(stack) = 3
  /\ stack[1].url = baseUrl /\ stack[1].pc = "links" /\ stack[1].links = <<V2A>>
  /\ stack[2].url = V1A /\ stack[2].pc = "canon"
  /\ stack[3].url = PageA /\ stack[3].pc = "links" /\ stack[3].links # <<>>
  /\ V2A \notin visited
  /\ hist.fetched = {baseUrl, PageA}

(***************************************************************************)
(* C31  Page visits never overlap: at most one browser page, probe page or *)
(* fetch page, is open at any moment; it belongs to the innermost          *)
(* activation of crawlPage, so no other URL's probe or fetch starts before *)
(* it is closed; and no page is open when an activation returns or when    *)
(* the run has ended.                                                      *)
(***************************************************************************)
\* The activation holds an open page: the probe page or the fetch page.
HoldsPage(frame) == frame.pc \in {"probe", "nav", "loaded"}

C31_VisitsNeverOverlap ==
  [][/\ hist'.open <= 1
     /\ hist'.open = OpenPages'
     /\ \A i \in 1..(Len(stack') - 1) : ~HoldsPage(stack'[i])
     /\ (stack # <<>> /\ Len(stack') # Len(stack)) => hist'.open = 0
     /\ (hist.open = 1 /\ hist'.open = 1) =>
          /\ Len(stack') = Len(stack)
          /\ stack'[Len(stack')].url = Top.url
          /\ hist'.probed = hist.probed
          /\ hist'.fetched = hist.fetched
     /\ RunEnded' => hist'.open = 0]_vars

\* inside the visit of a link of the saved base page the probe of a versioned
\* URL has answered, its page is closed, and the fetch page of the canonical URL
\* is the only open page
C31_Witness ==
  /\ Len(stack) = 3
  /\ stack[1].pc = "links"
  /\ stack[2].pc = "canon"
  /\ stack[3].pc = "nav"
  /\ hist.open = 1
  /\ hist.probeOk # {}
  /\ hist.saved # {}

(***************************************************************************)
(* C32  Every record persisted during a run is recorded under the request  *)
(* URL on which a step-5 fetch was performed in that run: its url field    *)
(* equals that requested URL, which is in VisitedSet; no record is created *)
(* for a URL that was suppressed or skipped in favour of its canonical     *)
(* counterpart, or for a URL that was only probed.                         *)
(***************************************************************************)
C32_RecordUnderRequestUrl ==
  \A s \in hist.saved :
    /\ s.url = s.req
    /\ s.url \in hist.fetched
    /\ s.url \in visited

\* What the code keeps: a record is written only by the step-5 fetch of a URL in
\* VisitedSet, under the URL that navigation ended at, and never in the visit of
\* a URL that returned at a guard or was only probed.
C32_RecordOnlyByFetch ==
  /\ \A s \in hist.saved :
       /\ s.req \in hist.fetched
       /\ s.req \in visited
       /\ s.url \in FinalUrls(s.req)
  /\ Cardinality({s.req : s \in hist.saved}) = Cardinality(hist.saved)
  /\ \A url \in hist.probed \ hist.fetched : \A s \in hist.saved : s.req # url

\* the record of the fetch of the base URL carries the URL the site redirected
\* to, which was neither requested nor put into VisitedSet
C32_WitnessRedirected ==
  /\ hist.saved = {[req |-> baseUrl, url |-> PageA]}
  /\ PageA \notin visited
  /\ PageA \notin hist.fetched
  /\ \E i \in 1..Len(disk) : disk[i].url = PageA /\ disk[i].age = 0

(***************************************************************************)
(* C33  For every link graph over the URLs of the site, cycles and         *)
(* permanently failing URLs included, and every budget, the unbounded one  *)
(* included, a run terminates: the recursion of crawlPage returns and the  *)
(* finalizer has run.                                                      *)
(***************************************************************************)
C33_RunTerminates == <>(RunEnded /\ stack = <<>>)

\* an unbounded budget, at least three fetches, one of which left no record,
\* a probe, and the run over
C33_Witness ==
  /\ RunEnded
  /\ maxPages.inf
  /\ \E url \in hist.fetched : \A s \in hist.saved : s.req # url
  /\ Cardinality(hist.fetched) >= 3
  /\ hist.probed # {}

(***************************************************************************)
(* C34  The base URL is always crawled: in every run with maxPages >= 1    *)
(* that got past the cache-derived candidates, the base URL is in          *)
(* VisitedSet by the end of the run, fetched in this run or loaded fresh   *)
(* from the cache.                                                         *)
(* As amended: run() always calls crawlPage(baseUrl) after the candidates, *)
(* and that visit fetches the base URL when it is not yet in VisitedSet    *)
(* and the budget is not used up; the run that completes has the base URL  *)
(* in VisitedSet, fetched or loaded from the cache, or has used up its     *)
(* budget on the candidates.                                               *)
(***************************************************************************)
AtLeastOnePage == maxPages.inf \/ maxPages.n >= 1

BaseCalled == pcRun = "close" /\ Len(stack) = 1 /\ Visiting(baseUrl)

C34_WitnessBudgetSpent ==
  /\ pcRun = "done"
  /\ maxPages = Num(1)
  /\ pageCount = 1
  /\ baseUrl \notin visited

\* the base URL loaded fresh from the cache and not fetched
C34_WitnessBaseCached ==
  /\ pcRun = "done"
  /\ AtLeastOnePage
  /\ baseUrl \in cachedPages
  /\ baseUrl \in visited
  /\ baseUrl \notin hist.fetched

(***************************************************************************)
(* C35  In every reachable state every URL of the cached-record map is in  *)
(* VisitedSet; consequently the cache short-circuit of crawlPage, step 4,  *)
(* never ends a visit: the visit of such a URL returns at the VisitedSet   *)
(* guard of step 1, and a visit that reaches step 4 goes on to the fetch.  *)
(***************************************************************************)
\* The visit on top of the stack returns in this step before any probe or fetch.
ReturnsAtEntry == stack # <<>> /\ Top.pc = "enter" /\ stack' = Popped

C35_CacheShortCircuitNeverTaken ==
  [][/\ cachedPages' \subseteq visited'
     /\ \A url \in Urls :
          ReachesCacheCheck(url) => (url \notin cachedPages /\ GoesOnToFetch(url))
     /\ \A url \in cachedPages :
          (stack # <<>> /\ Top.url = url) =>
            /\ Top.pc = "enter"
            /\ url \in visited
            /\ ReturnsAtEntry
            /\ UNCHANGED <<visited, visitedCanonical, pageCount, hist, disk,
                           allMarkdownContent>>]_vars

\* a fetched page links to a URL that was loaded from the cache, and
\* crawlPage has just been called with it
C35_Witness ==
  /\ Len(stack) >= 2
  /\ Top.pc = "enter"
  /\ Top.url \in cachedPages
  /\ Top.url \in visited
  /\ ~BudgetReached
  /\ hist.saved # {}

(***************************************************************************)
(* C36  In a run over well-formed records, for every URL u in VisitedSet   *)
(* the canonical URL getCanonicalUrl(u) is in CanonicalSet; VisitedSet and *)
(* CanonicalSet only ever grow and pageCount never decreases.              *)
(***************************************************************************)
CanonicalOfVisited == {getCanonicalUrl(u) : u \in visited}

C36_CanonicalCoversVisited ==
  [][/\ CanonicalOfVisited \subseteq visitedCanonical
     /\ CanonicalOfVisited' \subseteq visitedCanonical'
     /\ visited \subseteq visited'
     /\ visitedCanonical \subseteq visitedCanonical'
     /\ pageCount' >= pageCount
     /\ \A i \in 1..Len(disk) : IsWellFormed(disk[i])]_vars

\* a versioned URL loaded from the cache and another one fetched after its
\* probe failed, both with their canonical URLs in CanonicalSet
C36_Witness ==
  /\ V2A \in cachedPages
  /\ W12A \in hist.fetched
  /\ W12A \in hist.probeFailed
  /\ {W12A, V2A} \subseteq visited
  /\ {getCanonicalUrl(W12A), getCanonicalUrl(V2A)} \subseteq visitedCanonical
  /\ pageCount >= 1

(***************************************************************************)
(* C37  After initialization and in every state between visits, the number *)
(* of URLs in VisitedSet equals cachedCount + pageCount, provided the      *)
(* fresh records have pairwise distinct URLs: each step-5 fetch adds       *)
(* exactly one new URL, and suppressed, probed-only and guard-stopped URLs *)
(* add none.                                                               *)
(***************************************************************************)
DistinctUrls ==
  \A i, j \in 1..Len(disk) : disk[i].url = disk[j].url => i = j

C37_VisitedIsCachedPlusFetched ==
  DistinctUrls => Cardinality(visited) = cachedCount + pageCount

\* What the code keeps: the equation holds throughout a run over records that
\* all have a url, where every fetch adds one URL to VisitedSet and one to
\* pageCount and no other step changes either.
C37_VisitedIsCachedPlusFetchedWithUrls ==
  [][(DistinctUrls /\ \A i \in 1..Len(disk) : IsWellFormed(disk[i])) =>
       /\ Cardinality(visited') = cachedCount' + pageCount'
       /\ Initialized =>
            IF \E url \in Urls : FetchStarts(url)
            THEN /\ visited' = visited \cup {Top.url}
                 /\ Top.url \notin visited
                 /\ pageCount' = pageCount + 1
            ELSE visited' = visited /\ pageCount' = pageCount]_vars

\* a fresh record without url: one member of VisitedSet, none counted
C37_WitnessUrlLess ==
  /\ LoaderRan
  /\ DistinctUrls
  /\ visited = {Undefined}
  /\ cachedCount = 0
  /\ pageCount = 0

(***************************************************************************)
(* C38  The run statistics of the two artifacts agree: the manifest's      *)
(* totalPages equals its cachedPages plus its newlyFetchedPages, and       *)
(* equals the 'Total Pages' figure written in the corpus header of the     *)
(* same run.                                                               *)
(***************************************************************************)
C38_StatisticsAgree ==
  ArtifactsWritten =>
    /\ artifacts.summary[1].totalPages =
         artifacts.summary[1].cachedPages + artifacts.summary[1].newlyFetchedPages
    /\ artifacts.summary[1].totalPages = artifacts.corpus[1].totalPages

\* What the code keeps: the corpus header adds up, the two artifacts agree on
\* the cached and the newly fetched pages, and the manifest's total is the
\* number of newly fetched pages alone.
C38_ManifestTotalLeavesOutCached ==
  ArtifactsWritten =>
    /\ artifacts.corpus[1].totalPages =
         artifacts.corpus[1].cachedPages + artifacts.corpus[1].newlyFetchedPages
    /\ artifacts.summary[1].cachedPages = artifacts.corpus[1].cachedPages
    /\ artifacts.summary[1].newlyFetchedPages = artifacts.corpus[1].newlyFetchedPages
    /\ artifacts.summary[1].totalPages = artifacts.summary[1].newlyFetchedPages
    /\ artifacts.summary[1].cachedPages = cachedCount
    /\ artifacts.summary[1].newlyFetchedPages = pageCount

\* one page from the cache and one fetched: the manifest says 1, the corpus 2
C38_WitnessCachedPage ==
  /\ pcRun = "done"
  /\ artifacts.summary[1].totalPages = 1
  /\ artifacts.summary[1].cachedPages = 1
  /\ artifacts.summary[1].newlyFetchedPages = 1
  /\ artifacts.corpus[1].totalPages = 2

(***************************************************************************)
(* C39  urlToFilename is injective on the URLs a run can fetch: two        *)
(* distinct URLs under the site root, for example the paths a/b and a_b,   *)
(* or the root and a page named index, never map to the same record file   *)
(* name.                                                                   *)
(***************************************************************************)
C39_FilenameInjective ==
  (cres # <<>> /\ Len(cu) = 2 /\ cu[1] # cu[2]) => cres[1].names[1] # cres[1].names[2]

\* A path of non-empty segments without underscore, other than the page index.
PlainPath(url) ==
  /\ url # IndexPage
  /\ \A i \in 1..Len(url) : url[i] # "_"
  /\ \A i \in 1..(Len(url) - 1) : ~(url[i] = "/" /\ url[i + 1] = "/")
  /\ url # <<>> => (url[1] = "/" /\ url[Len(url)] # "/")

\* What the code keeps: on such paths the file names are distinct.
C39_InjectiveOnPlainPaths ==
  (cres # <<>> /\ Len(cu) = 2 /\ cu[1] # cu[2] /\ PlainPath(cu[1]) /\ PlainPath(cu[2])) =>
    cres[1].names[1] # cres[1].names[2]

\* the paths a/b and a_b have the same file name
C39_WitnessSlashUnderscore ==
  /\ cu = <<<<"/", "a", "/", "b">>, <<"/", "a", "_", "b">>>>
  /\ cres # <<>>
  /\ cres[1].names[1] = <<"a", "_", "b">>
  /\ cres[1].names[2] = <<"a", "_", "b">>

\* the root and the page named index have the same file name
C39_WitnessIndex ==
  /\ cu = <<<<>>, IndexPage>>
  /\ cres # <<>>
  /\ cres[1].names[1] = cres[1].names[2]

(***************************************************************************)
(* C40  The step-5 fetch applies the same success criterion as the         *)
(* canonical probe: a URL whose navigation completes with a non-OK HTTP    *)
(* status is treated as a page-level failure, so no record is persisted    *)
(* and no document is appended for it.                                     *)
(***************************************************************************)
\* The page of the fetch on top of the stack was loaded with a non-OK status.
LoadedNotOk == stack # <<>> /\ Top.pc = "loaded" /\ Top.response = "notOk"

C40_NotOkFetchIsFailure ==
  [][LoadedNotOk =>
       /\ disk' = disk
       /\ allMarkdownContent' = allMarkdownContent
       /\ hist'.saved = hist.saved
       /\ stack' = Popped]_vars

\* What the code does: a loaded page is extracted and saved whatever the status
\* of its response; only a navigation that throws on all attempts, or an
\* extraction that throws, leaves no record.
C40_LoadedPageSavedWhateverStatus ==
  [][(stack # <<>> /\ Top.pc = "loaded" /\ ~ExtractionFails) =>
       /\ \E s \in hist'.saved \ hist.saved : s.req = Top.url
       /\ Len(allMarkdownContent') = Len(allMarkdownContent) + 1
       /\ \E i \in 1..Len(disk') : disk'[i].age = 0 /\ [req |-> Top.url, url |-> disk'[i].url] \in hist'.saved
     ]_vars

\* the probe of the canonical URL of V1A failed, V1A was fetched, and the
\* canonical URL, reached through a link, has loaded with a non-OK status
C40_WitnessNotOkLoaded ==
  /\ LoadedNotOk
  /\ Top.url = PageA
  /\ V1A \in hist.probeFailed
  /\ V1A \in hist.fetched

====
